---------------------------- MODULE Spec2Model ----------------------------
(***************************************************************************)
(* bakezip: rebuilding a ZIP archive with UTF-8 filenames.                 *)
(*                                                                         *)
(* The model follows src/zip/rebuild.rs (rebuild and the ZipSerialize      *)
(* implementations), src/zip/inspect.rs (InspectedArchive::inspect,        *)
(* decode_with_encoding, detect_encoding) and the header parsers of        *)
(* src/zip/parse.rs.  Headers are serialised to bytes as to_bytes does and *)
(* the properties read the bytes back with the parsers.                    *)
(*                                                                         *)
(* Numbers.  TLC integers are 32 bits wide, so a u32 or u64 value v is the *)
(* record [hi |-> v \div 65536, lo |-> v % 65536]; u64 values of the model *)
(* stay below 2^47.  u16 values and lengths are plain integers.            *)
(* Option<T> is a sequence: <<>> is None and <<v>> is Some(v).             *)
(* A string is the sequence of its Unicode scalar values.                  *)
(***************************************************************************)
EXTENDS Integers, Sequences, FiniteSets, TLC

---------------------------------------------------------------------------
(* Integers of fixed width *)

None == <<>>

Some(v) == <<v>>

IsSome(o) == Len(o) = 1

Unwrap(o) == o[1]

Max(a, b) == IF a >= b THEN a ELSE b

Min(a, b) == IF a <= b THEN a ELSE b

\* 2^16, the radix of the two-limb representation.
Radix == 256 * 256

\* The value hi * 2^16 + lo.
U(hi, lo) == [hi |-> hi, lo |-> lo]

\* `n as u64` for a usize / u16 n.
FromInt(n) == U(n \div Radix, n % Radix)

\* u64 addition (current_offset += ...).
Add(a, b) == U(a.hi + b.hi + ((a.lo + b.lo) \div Radix), (a.lo + b.lo) % Radix)

\* u64 subtraction a - b for a >= b (cd_end_offset - cd_start_offset).
Sub(a, b) ==
    IF a.lo >= b.lo THEN U(a.hi - b.hi, a.lo - b.lo)
    ELSE U(a.hi - b.hi - 1, a.lo + Radix - b.lo)

Less(a, b) == a.hi < b.hi \/ (a.hi = b.hi /\ a.lo < b.lo)

\* 0xFFFFFFFF as u32 or u64.
Sentinel32 == U(65535, 65535)

\* `v >= 0xFFFFFFFF`.
GeSentinel32Bug(v) == v.hi > 65535

GeSentinel32(v) == ~Less(v, Sentinel32)

\* `v as u32`: truncation to the low 32 bits.
AsU32(v) == U(v.hi % Radix, v.lo)

\* `n as u16`.
AsU16(n) == n % Radix

\* Bit tests and updates of a u16, bit given as its mask (a power of two).
HasBit(f, mask) == (f \div mask) % 2 = 1

SetBit(f, mask) == IF HasBit(f, mask) THEN f ELSE f + mask

ClearBit(f, mask) == IF HasBit(f, mask) THEN f - mask ELSE f

---------------------------------------------------------------------------
(* Little-endian bytes *)

\* u16::to_le_bytes
Le16(n) == <<n % 256, n \div 256>>

\* u32::to_le_bytes
Le32(v) == Le16(v.lo) \o Le16(v.hi)

\* u64::to_le_bytes
Le64(v) == Le16(v.lo) \o Le16(v.hi % Radix) \o Le16(v.hi \div Radix) \o <<0, 0>>

\* data[from..to] of Rust, with 0-based from and exclusive to.
Slice(data, from, to) == SubSeq(data, from + 1, to)

parse_u16_le(data) == data[1] + 256 * data[2]

parse_u32_le(data) == U(data[3] + 256 * data[4], data[1] + 256 * data[2])

parse_u64_le(data) ==
    U(data[3] + 256 * data[4]
        + Radix * (data[5] + 256 * data[6] + Radix * (data[7] + 256 * data[8])),
      data[1] + 256 * data[2])

RECURSIVE Concat(_)
\* The concatenation of a sequence of sequences.
Concat(ss) == IF ss = <<>> THEN <<>> ELSE Head(ss) \o Concat(Tail(ss))

RECURSIVE SumSeq(_)
SumSeq(ns) == IF ns = <<>> THEN 0 ELSE Head(ns) + SumSeq(Tail(ns))

---------------------------------------------------------------------------
(* Text: encoding_rs as inspect.rs uses it.  An encoding is its name.      *)

UTF_8 == "UTF-8"

SHIFT_JIS == "Shift_JIS"

WINDOWS_1252 == "windows-1252"

\* The encodings of the model (encoding_rs knows more).
Encodings == {UTF_8, SHIFT_JIS, WINDOWS_1252}

\* U+FFFD REPLACEMENT CHARACTER, written for a malformed sequence.
Replacement == 65533

\* U+301C WAVE DASH and U+FF5E FULLWIDTH TILDE.
WaveDash == 12316

FullwidthTilde == 65374

\* One step of the UTF-8 decoder at data[i]: the scalar value read (or
\* Replacement), whether the sequence was malformed, and the bytes consumed.
\* A byte that cannot continue a sequence is left for the next step.
Utf8Step(data, i) ==
    LET b == data[i]
        need == IF b <= 127 THEN 0
                ELSE IF b >= 194 /\ b <= 223 THEN 1
                ELSE IF b >= 224 /\ b <= 239 THEN 2
                ELSE IF b >= 240 /\ b <= 244 THEN 3
                ELSE 4
        lower == IF b = 224 THEN 160 ELSE IF b = 240 THEN 144 ELSE 128
        upper == IF b = 237 THEN 159 ELSE IF b = 244 THEN 143 ELSE 191
        InRange(k) ==
            /\ i + k <= Len(data)
            /\ data[i + k] >= (IF k = 1 THEN lower ELSE 128)
            /\ data[i + k] <= (IF k = 1 THEN upper ELSE 191)
        Bad(k) == [cp |-> Replacement, err |-> TRUE, n |-> k]
        Cont(k) == data[i + k] % 64
    IN  CASE need = 0 -> [cp |-> b, err |-> FALSE, n |-> 1]
          [] need = 4 -> Bad(1)
          [] need = 1 ->
                IF InRange(1)
                THEN [cp |-> (b % 32) * 64 + Cont(1), err |-> FALSE, n |-> 2]
                ELSE Bad(1)
          [] need = 2 ->
                IF ~InRange(1) THEN Bad(1)
                ELSE IF ~InRange(2) THEN Bad(2)
                ELSE [cp |-> ((b % 16) * 64 + Cont(1)) * 64 + Cont(2),
                      err |-> FALSE, n |-> 3]
          [] OTHER ->
                IF ~InRange(1) THEN Bad(1)
                ELSE IF ~InRange(2) THEN Bad(2)
                ELSE IF ~InRange(3) THEN Bad(3)
                ELSE [cp |-> (((b % 8) * 64 + Cont(1)) * 64 + Cont(2)) * 64 + Cont(3),
                      err |-> FALSE, n |-> 4]

\* The JIS X 0208 index at the pointers that the file names of the model and
\* their concatenations reach (pointer -> scalar value); 0 stands for an
\* unmapped pointer, as are all pointers of lead byte EF.
Jis0208(pointer) ==
    CASE pointer = 32 -> 65374   \* 81 60  U+FF5E
      [] pointer = 33 -> 8741   \* 81 61  U+2225
      [] pointer = 34 -> 65372   \* 81 62  U+FF5C
      [] pointer = 63 -> 247   \* 81 80  U+00F7
      [] pointer = 64 -> 65309   \* 81 81  U+FF1D
      [] pointer = 91 -> 9679   \* 81 9C  U+25CF
      [] pointer = 93 -> 9671   \* 81 9E  U+25C7
      [] pointer = 104 -> 8592   \* 81 A9  U+2190
      [] pointer = 124 -> 8835   \* 81 BD  U+2283
      [] pointer = 162 -> 8730   \* 81 E3  U+221A
      [] pointer = 5108 -> 24406   \* 9C 60  U+5F56
      [] pointer = 5109 -> 24407   \* 9C 61  U+5F57
      [] pointer = 5110 -> 24409   \* 9C 62  U+5F59
      [] pointer = 5139 -> 24601   \* 9C 80  U+6019
      [] pointer = 5140 -> 24592   \* 9C 81  U+6010
      [] pointer = 5167 -> 24807   \* 9C 9C  U+60E7
      [] pointer = 5169 -> 24730   \* 9C 9E  U+609A
      [] pointer = 5180 -> 24787   \* 9C A9  U+60D3
      [] pointer = 5200 -> 24846   \* 9C BD  U+610E
      [] pointer = 5206 -> 24895   \* 9C C3  U+613F
      [] pointer = 5238 -> 25034   \* 9C E3  U+61CA
      [] pointer = 5250 -> 25078   \* 9C EF  U+61F6
      [] pointer = 5484 -> 26492   \* 9E 60  U+677C
      [] pointer = 5485 -> 26474   \* 9E 61  U+676A
      [] pointer = 5486 -> 26508   \* 9E 62  U+678C
      [] pointer = 5515 -> 26803   \* 9E 80  U+68B3
      [] pointer = 5516 -> 26667   \* 9E 81  U+682B
      [] pointer = 5543 -> 26849   \* 9E 9C  U+68E1
      [] pointer = 5545 -> 26829   \* 9E 9E  U+68CD
      [] pointer = 5556 -> 26848   \* 9E A9  U+68E0
      [] pointer = 5576 -> 26928   \* 9E BD  U+6930
      [] pointer = 5582 -> 27058   \* 9E C3  U+69B2
      [] pointer = 5614 -> 27117   \* 9E E3  U+69ED
      [] pointer = 5626 -> 27256   \* 9E EF  U+6A78
      [] pointer = 6424 -> 32317   \* E3 60  U+7E3D
      [] pointer = 6425 -> 32162   \* E3 61  U+7DA2
      [] pointer = 6426 -> 32175   \* E3 62  U+7DAF
      [] pointer = 6455 -> 32306   \* E3 80  U+7E32
      [] pointer = 6456 -> 32314   \* E3 81  U+7E3A
      [] pointer = 6483 -> 32412   \* E3 9C  U+7E9C
      [] pointer = 6485 -> 32570   \* E3 9E  U+7F3A
      [] pointer = 6496 -> 32608   \* E3 A9  U+7F60
      [] pointer = 6516 -> 32694   \* E3 BD  U+7FB6
      [] pointer = 6522 -> 32725   \* E3 C3  U+7FD5
      [] pointer = 6554 -> 32893   \* E3 E3  U+807D
      [] pointer = 6566 -> 32997   \* E3 EF  U+80E5
      [] OTHER -> 0

\* One step of the Shift_JIS decoder at data[i].
SjisStep(data, i) ==
    LET b == data[i]
        IsLead == (b >= 129 /\ b <= 159) \/ (b >= 224 /\ b <= 252)
        Bad(k) == [cp |-> Replacement, err |-> TRUE, n |-> k]
    IN  IF b <= 128 THEN [cp |-> b, err |-> FALSE, n |-> 1]
        ELSE IF b >= 161 /\ b <= 223
        THEN [cp |-> 65377 - 161 + b, err |-> FALSE, n |-> 1]
        ELSE IF ~IsLead THEN Bad(1)
        ELSE IF i + 1 > Len(data) THEN Bad(1)
        ELSE LET t == data[i + 1]
                 offset == IF t < 127 THEN 64 ELSE 65
                 lead_offset == IF b < 160 THEN 129 ELSE 193
                 trail_ok == (t >= 64 /\ t <= 126) \/ (t >= 128 /\ t <= 252)
                 pointer == (b - lead_offset) * 188 + t - offset
                 cp == IF ~trail_ok THEN 0
                       ELSE IF pointer >= 8836 /\ pointer <= 10715
                       THEN 57344 - 8836 + pointer
                       ELSE Jis0208(pointer)
             IN  IF cp # 0 THEN [cp |-> cp, err |-> FALSE, n |-> 2]
                 ELSE IF t <= 127 THEN Bad(1)
                 ELSE Bad(2)

\* windows-1252: every byte is mapped, 0x80..0x9F by the table.
Windows1252Step(data, i) ==
    LET b == data[i]
        high == <<8364, 129, 8218, 402, 8222, 8230, 8224, 8225,
                  710, 8240, 352, 8249, 338, 141, 381, 143,
                  144, 8216, 8217, 8220, 8221, 8226, 8211, 8212,
                  732, 8482, 353, 8250, 339, 157, 382, 376>>
    IN  [cp |-> IF b >= 128 /\ b <= 159 THEN high[b - 127] ELSE b,
         err |-> FALSE, n |-> 1]

DecodeStep(data, i, encoding) ==
    CASE encoding = UTF_8 -> Utf8Step(data, i)
      [] encoding = SHIFT_JIS -> SjisStep(data, i)
      [] OTHER -> Windows1252Step(data, i)

RECURSIVE DecodeFrom(_, _, _)
\* Decoding without BOM handling, from data[i] on: the string and whether a
\* malformed sequence was replaced.
DecodeFrom(data, i, encoding) ==
    IF i > Len(data) THEN [string |-> <<>>, has_errors |-> FALSE]
    ELSE LET s == DecodeStep(data, i, encoding)
             rest == DecodeFrom(data, i + s.n, encoding)
         IN  [string |-> <<s.cp>> \o rest.string,
              has_errors |-> s.err \/ rest.has_errors]

\* The UTF-8 byte order mark EF BB BF.
HasUtf8Bom(data) ==
    Len(data) >= 3 /\ data[1] = 239 /\ data[2] = 187 /\ data[3] = 191

\* Encoding::decode: BOM sniffing, then decoding with replacement.  A UTF-8
\* BOM switches to UTF-8 and is removed.  (A UTF-16 BOM, FF FE or FE FF,
\* begins no file name of the model.)
EncodingDecode(data, encoding) ==
    LET bom == HasUtf8Bom(data)
        used == IF bom THEN UTF_8 ELSE encoding
        r == DecodeFrom(data, IF bom THEN 4 ELSE 1, used)
    IN  [string |-> r.string, encoding_used |-> used, has_errors |-> r.has_errors]

\* str::from_utf8(data).is_ok()
Utf8Valid(data) == ~DecodeFrom(data, 1, UTF_8).has_errors

\* The UTF-8 bytes of one scalar value.
Utf8EncodeChar(cp) ==
    IF cp < 128 THEN <<cp>>
    ELSE IF cp < 2048 THEN <<192 + (cp \div 64), 128 + (cp % 64)>>
    ELSE IF cp < 65536
    THEN <<224 + (cp \div 4096), 128 + ((cp \div 64) % 64), 128 + (cp % 64)>>
    ELSE <<240 + (cp \div 262144), 128 + ((cp \div 4096) % 64),
           128 + ((cp \div 64) % 64), 128 + (cp % 64)>>

\* String::as_bytes
AsBytes(string) == Concat([i \in 1..Len(string) |-> Utf8EncodeChar(string[i])])

\* str::replace(from, to) for single characters.
Replace(string, from, to) ==
    [i \in 1..Len(string) |-> IF string[i] = from THEN to ELSE string[i]]

Contains(string, c) == \E i \in 1..Len(string) : string[i] = c

\* Encoding::for_label on the labels of the model; None for an unknown label.
ForLabel(label) ==
    CASE label \in {"utf-8", "utf8"} -> Some(UTF_8)
      [] label \in {"shift_jis", "sjis"} -> Some(SHIFT_JIS)
      [] label \in {"windows-1252", "latin1"} -> Some(WINDOWS_1252)
      [] OTHER -> None

---------------------------------------------------------------------------
(* inspect.rs: the filename decoding pipeline *)

\* decode_with_encoding after encoding.decode(data) gave d, were the
\* normalization applied before the Shift_JIS wave-dash handling.
DecodedStringNormalizedFirst(d, force, wave_dash_handling, normalization) ==
    LET normalized ==
            CASE normalization = "NormalizeToFullwidthTilde" ->
                    Replace(d.string, WaveDash, FullwidthTilde)
              [] normalization = "NormalizeToWaveDash" ->
                    Replace(d.string, FullwidthTilde, WaveDash)
              [] OTHER -> d.string
        string ==
            IF d.encoding_used = SHIFT_JIS /\ wave_dash_handling = "DecodeToWaveDash"
            THEN Replace(normalized, FullwidthTilde, WaveDash)
            ELSE normalized
    IN  IF force \/ ~d.has_errors
        THEN Some([string |-> string, has_errors |-> d.has_errors,
                   encoding_used |-> d.encoding_used])
        ELSE None

\* decode_with_encoding after encoding.decode(data) gave d: the Shift_JIS
\* wave-dash handling, then the normalization.  None when the decoding has
\* errors and is not forced.
DecodedString(d, force, wave_dash_handling, normalization) ==
    LET handled ==
            IF d.encoding_used = SHIFT_JIS /\ wave_dash_handling = "DecodeToWaveDash"
            THEN Replace(d.string, FullwidthTilde, WaveDash)
            ELSE d.string
        string ==
            CASE normalization = "NormalizeToFullwidthTilde" ->
                    Replace(handled, WaveDash, FullwidthTilde)
              [] normalization = "NormalizeToWaveDash" ->
                    Replace(handled, FullwidthTilde, WaveDash)
              [] OTHER -> handled
    IN  IF force \/ ~d.has_errors
        THEN Some([string |-> string, has_errors |-> d.has_errors,
                   encoding_used |-> d.encoding_used])
        ELSE None

\* decode_with_encoding
decode_with_encoding(data, encoding, force, wave_dash_handling, normalization) ==
    DecodedString(EncodingDecode(data, encoding), force, wave_dash_handling,
                  normalization)

\* EncodingOrAscii is "ASCII" or the name of an encoding.
ASCII == "ASCII"

\* EncodingOrAscii::encoding
EncodingOf(e) == IF e = ASCII THEN UTF_8 ELSE e

\* detect_encoding.  guess is what the detector (chardetng, a black box)
\* answers for this data.
detect_encoding(data, guess) ==
    IF Utf8Valid(data) /\ ~Contains(data, 0)
    THEN Some(IF \A i \in 1..Len(data) : data[i] < 128 THEN ASCII ELSE UTF_8)
    ELSE LET r == decode_with_encoding(data, guess, FALSE,
                      "DecodeToFullwidthTilde", "Preserve")
         IN  IF IsSome(r) /\ ~Unwrap(r).has_errors
             THEN Some(Unwrap(r).encoding_used)
             ELSE None

\* The preference list of a FieldSelectionStrategy.
FieldsOf(strategy) ==
    CASE strategy = "CdhUnicodeThenLfhUnicodeThenCdh" ->
            <<"CdhUnicodePathExtraField", "LfhUnicodePathExtraField", "CdhFilename">>
      [] strategy = "CdhUnicodeThenLfhUnicodeThenLfh" ->
            <<"CdhUnicodePathExtraField", "LfhUnicodePathExtraField", "LfhFilename">>
      [] strategy = "LfhUnicodeThenCdhUnicodeThenCdh" ->
            <<"LfhUnicodePathExtraField", "CdhUnicodePathExtraField", "CdhFilename">>
      [] strategy = "LfhUnicodeThenCdhUnicodeThenLfh" ->
            <<"LfhUnicodePathExtraField", "CdhUnicodePathExtraField", "LfhFilename">>
      [] strategy = "CdhUnicodeThenCdh" ->
            <<"CdhUnicodePathExtraField", "CdhFilename">>
      [] strategy = "CdhOnly" -> <<"CdhFilename">>
      [] strategy = "LfhUnicodeThenLfh" ->
            <<"LfhUnicodePathExtraField", "LfhFilename">>
      [] OTHER -> <<"LfhFilename">>

FieldSelectionStrategies ==
    {"CdhUnicodeThenLfhUnicodeThenCdh", "CdhUnicodeThenLfhUnicodeThenLfh",
     "LfhUnicodeThenCdhUnicodeThenCdh", "LfhUnicodeThenCdhUnicodeThenLfh",
     "CdhUnicodeThenCdh", "CdhOnly", "LfhUnicodeThenLfh", "LfhOnly"}

\* GeneralPurposeBitFlag: bit 3 (data descriptor) and bit 11 (UTF-8).
DataDescriptorFlag == 8

Utf8Flag == 2048

is_utf8(flags) == HasBit(flags, Utf8Flag)

has_data_descriptor(flags) == HasBit(flags, DataDescriptorFlag)

UnicodePathAcceptedIfPresent(unicode_path, config) == IsSome(unicode_path)

\* Whether a Unicode-path extra is taken as the filename source.
UnicodePathAccepted(unicode_path, config) ==
    /\ IsSome(unicode_path)
    /\ (config.ignore_crc32_mismatch \/ Unwrap(unicode_path).crc32_matched)

RECURSIVE SelectField(_, _, _)
\* The first field of the list that is accepted: a FieldSelectedFileEntry.
SelectField(entry, fields, config) ==
    IF fields = <<>>
    THEN [kind |-> "unreachable", utf8_flag |-> FALSE, original_bytes |-> <<>>]
    ELSE LET kind == Head(fields)
         IN  CASE kind = "CdhFilename" ->
                    [kind |-> kind, utf8_flag |-> is_utf8(entry.cdh.flags),
                     original_bytes |-> entry.cdh.filename]
               [] kind = "LfhFilename" ->
                    [kind |-> kind, utf8_flag |-> is_utf8(entry.lfh.flags),
                     original_bytes |-> entry.lfh.filename]
               [] kind = "CdhUnicodePathExtraField" ->
                    IF UnicodePathAccepted(entry.cdh.unicode_path, config)
                    THEN [kind |-> kind, utf8_flag |-> TRUE,
                          original_bytes |-> Unwrap(entry.cdh.unicode_path).data]
                    ELSE SelectField(entry, Tail(fields), config)
               [] OTHER ->
                    IF UnicodePathAccepted(entry.lfh.unicode_path, config)
                    THEN [kind |-> kind, utf8_flag |-> TRUE,
                          original_bytes |-> Unwrap(entry.lfh.unicode_path).data]
                    ELSE SelectField(entry, Tail(fields), config)

IsUnicodeKind(kind) ==
    kind \in {"CdhUnicodePathExtraField", "LfhUnicodePathExtraField"}

\* a.or(b) of Option.
OrElse(a, b) == IF IsSome(a) THEN a ELSE b

\* The effective sizes: the ZIP64 value when the CDH has one, else the
\* 32-bit field.
EffectiveUncompressedSize(cdh) ==
    IF IsSome(cdh.zip64) /\ IsSome(Unwrap(cdh.zip64).uncompressed_size)
    THEN Unwrap(Unwrap(cdh.zip64).uncompressed_size)
    ELSE cdh.uncompressed_size

EffectiveCompressedSizeNoZip64(cdh) == cdh.compressed_size

EffectiveCompressedSize(cdh) ==
    IF IsSome(cdh.zip64) /\ IsSome(Unwrap(cdh.zip64).compressed_size)
    THEN Unwrap(Unwrap(cdh.zip64).compressed_size)
    ELSE cdh.compressed_size

Ok(v) == [ok |-> TRUE, value |-> v, error |-> ""]

Err(e) == [ok |-> FALSE, value |-> <<>>, error |-> e]

\* ZipInspectError::EncodingNotFound(label)
EncodingNotFound(label) == [kind |-> "EncodingNotFound", label |-> label]

\* The user's encoding, were an unknown fallback label taken as no fallback.
UserEncodingLenient(encoding_config) ==
    IF encoding_config.type = "ForceSpecified" \/ IsSome(encoding_config.label)
    THEN LET found == ForLabel(Unwrap(encoding_config.label))
         IN  IF IsSome(found) \/ encoding_config.type # "ForceSpecified"
             THEN Ok(found)
             ELSE Err(EncodingNotFound(Unwrap(encoding_config.label)))
    ELSE Ok(None)

\* The user's encoding: Ok(Option<encoding>) or EncodingNotFound(label).
UserEncoding(encoding_config) ==
    IF encoding_config.type = "ForceSpecified" \/ IsSome(encoding_config.label)
    THEN LET found == ForLabel(Unwrap(encoding_config.label))
         IN  IF IsSome(found) THEN Ok(found)
             ELSE Err(EncodingNotFound(Unwrap(encoding_config.label)))
    ELSE Ok(None)

\* The encoding an entry is decoded with, were the entry's own detection
\* preferred to the archive's under PreferOverallDetected.
ChooseEncodingEntryFirst(predetect, config, overall_encoding, detected_encoding, user_encoding) ==
    IF (~config.encoding.ignore_utf8_flag /\ predetect.utf8_flag)
        \/ IsUnicodeKind(predetect.kind)
    THEN Some(UTF_8)
    ELSE CASE config.encoding.type = "PreferOverallDetected" ->
                OrElse(OrElse(detected_encoding, overall_encoding), user_encoding)
           [] config.encoding.type = "EntryDetected" ->
                OrElse(detected_encoding, user_encoding)
           [] OTHER -> user_encoding

\* The encoding an entry is decoded with (None: no decoding).
ChooseEncoding(predetect, config, overall_encoding, detected_encoding, user_encoding) ==
    IF (~config.encoding.ignore_utf8_flag /\ predetect.utf8_flag)
        \/ IsUnicodeKind(predetect.kind)
    THEN Some(UTF_8)
    ELSE CASE config.encoding.type = "PreferOverallDetected" ->
                OrElse(OrElse(overall_encoding, detected_encoding), user_encoding)
           [] config.encoding.type = "EntryDetected" ->
                OrElse(detected_encoding, user_encoding)
           [] OTHER -> user_encoding

\* The InspectedFilenameField of one selected source, once detect_encoding
\* has answered detected_encoding for it.
InspectedFilenameField(predetect, config, overall_encoding, user_encoding, detected_encoding) ==
    LET encoding == ChooseEncoding(predetect, config, overall_encoding,
                                   detected_encoding, user_encoding)
        decoded ==
            IF IsSome(encoding)
            THEN decode_with_encoding(predetect.original_bytes,
                     EncodingOf(Unwrap(encoding)), TRUE,
                     config.wave_dash_handling, config.wave_dash_normalization)
            ELSE None
    IN  [kind |-> predetect.kind,
         utf8_flag |-> predetect.utf8_flag,
         original_bytes |-> IF config.needs_original_bytes
                            THEN Some(predetect.original_bytes) ELSE None,
         detected_encoding |-> detected_encoding,
         decoded |-> decoded]

\* The closure inspect maps over the selected sources.
InspectFilename(predetect, config, overall_encoding, user_encoding, guess) ==
    InspectedFilenameField(predetect, config, overall_encoding, user_encoding,
                           detect_encoding(predetect.original_bytes, guess))

\* The sources inspect selects, entry by entry.
Predetect(zip, config) ==
    [i \in 1..Len(zip.entries) |->
        SelectField(zip.entries[i], FieldsOf(config.field_selection_strategy), config)]

\* The data the detector is asked about: each selected source, then their
\* concatenation.
DetectorInputs(zip, config) ==
    LET pre == Predetect(zip, config)
    IN  [i \in 1..Len(pre) |-> pre[i].original_bytes]
            \o <<Concat([i \in 1..Len(pre) |-> pre[i].original_bytes])>>

\* The answers a detector can give: one encoding per input, the same for the
\* same data. detect_encoding asks the detector only about data that is not
\* valid UTF-8 or holds a NUL; the answer for other data is never read and is
\* fixed here.
DetectorGuesses(inputs) ==
    {g \in [1..Len(inputs) -> Encodings] :
        /\ \A i, j \in 1..Len(inputs) : inputs[i] = inputs[j] => g[i] = g[j]
        /\ \A i \in 1..Len(inputs) :
              Utf8Valid(inputs[i]) /\ ~Contains(inputs[i], 0) => g[i] = UTF_8}

\* The archive inspect returns for its entries: the wave-dash flags are
\* computed from the decoded names.
InspectedArchive(entries, overall_encoding) ==
    LET n == Len(entries)
        Decoded(i) == Unwrap(entries[i].filename.decoded)
        Has(i, c) == IsSome(entries[i].filename.decoded) /\ Contains(Decoded(i).string, c)
        IsSjis(i) == Decoded(i).encoding_used = SHIFT_JIS
    IN  [entries |-> entries,
         overall_encoding |-> overall_encoding,
         contains_sjis_wave_dash |->
            \E i \in 1..n :
                (Has(i, WaveDash) \/ Has(i, FullwidthTilde)) /\ IsSjis(i),
         contains_other_wave_dash |->
            \E i \in 1..n : Has(i, WaveDash) /\ ~IsSjis(i),
         contains_other_fullwidth_tilde |->
            \E i \in 1..n :
                Has(i, FullwidthTilde) /\ ~Has(i, WaveDash) /\ ~IsSjis(i)]

\* InspectedArchive::inspect, with the detector's answers g.
Inspect(zip, config, g) ==
    LET pre == Predetect(zip, config)
        n == Len(pre)
        inputs == DetectorInputs(zip, config)
        overall_encoding == detect_encoding(inputs[n + 1], g[n + 1])
        user == UserEncoding(config.encoding)
        entries ==
            [i \in 1..n |->
                [filename |-> InspectFilename(pre[i], config, overall_encoding,
                                              user.value, g[i]),
                 uncompressed_size |-> EffectiveUncompressedSize(zip.entries[i].cdh),
                 compressed_size |-> EffectiveCompressedSize(zip.entries[i].cdh)]]
    IN  IF ~user.ok THEN Err(user.error)
        ELSE Ok(InspectedArchive(entries, overall_encoding))

---------------------------------------------------------------------------
(* rebuild.rs: ZipSerialize *)

\* Extra field tags: 0x0001 (ZIP64 extended information), 0x7075 (Unicode path).
Zip64Tag == 1

UnicodePathTag == 28789

\* Signatures 0x04034b50, 0x02014b50, 0x06054b50, 0x06064b50, 0x07064b50.
LfhSignature == U(1027, 19280)

CdhSignature == U(513, 19280)

EocdSignature == U(1541, 19280)

Zip64EocdSignature == U(1542, 19280)

Zip64LocatorSignature == U(1798, 19280)

\* The bytes of the extra fields: tag, size, data of each, in order.
ExtraFieldsToBytes(extra_fields) ==
    Concat([i \in 1..Len(extra_fields) |->
        Le16(extra_fields[i].tag) \o Le16(extra_fields[i].size) \o extra_fields[i].data])

\* impl ZipSerialize for LocalFileHeader
LocalFileHeaderToBytes(h) ==
    Le32(h.signature) \o Le16(h.version_needed) \o Le16(h.flags)
        \o Le16(h.compression_method) \o Le16(h.last_mod_time) \o Le16(h.last_mod_date)
        \o Le32(h.crc32) \o Le32(h.compressed_size) \o Le32(h.uncompressed_size)
        \o Le16(h.filename_length) \o Le16(h.extra_field_length)
        \o h.filename \o ExtraFieldsToBytes(h.extra_fields)

\* impl ZipSerialize for CentralDirectoryHeader
CentralDirectoryHeaderToBytes(h) ==
    Le32(h.signature) \o Le16(h.version_made_by) \o Le16(h.version_needed)
        \o Le16(h.flags) \o Le16(h.compression_method) \o Le16(h.last_mod_time)
        \o Le16(h.last_mod_date) \o Le32(h.crc32) \o Le32(h.compressed_size)
        \o Le32(h.uncompressed_size) \o Le16(h.filename_length)
        \o Le16(h.extra_field_length) \o Le16(h.file_comment_length)
        \o Le16(h.disk_number_start) \o Le16(h.internal_file_attributes)
        \o Le32(h.external_file_attributes) \o Le32(h.local_header_offset)
        \o h.filename \o ExtraFieldsToBytes(h.extra_fields) \o h.file_comment

\* impl ZipSerialize for Zip64EndOfCentralDirectoryHeader
Zip64EocdToBytes(h) ==
    Le32(h.signature) \o Le64(h.size_of_record) \o Le16(h.version_made_by)
        \o Le16(h.version_needed) \o Le32(h.disk_number) \o Le32(h.disk_number_with_eocd)
        \o Le64(h.total_entries_on_disk) \o Le64(h.total_entries)
        \o Le64(h.central_directory_size) \o Le64(h.central_directory_offset)

\* impl ZipSerialize for Zip64EndOfCentralDirectoryLocator
Zip64LocatorToBytes(h) ==
    Le32(h.signature) \o Le32(h.disk_with_eocd) \o Le64(h.eocd_offset)
        \o Le32(h.total_disks)

\* impl ZipSerialize for EndOfCentralDirectory
EocdToBytes(h) ==
    Le32(h.signature) \o Le16(h.disk_number) \o Le16(h.disk_number_with_eocd)
        \o Le16(h.entries_on_disk) \o Le16(h.total_entries)
        \o Le32(h.central_directory_size) \o Le32(h.central_directory_offset)
        \o Le16(h.comment_length) \o h.comment

---------------------------------------------------------------------------
(* rebuild.rs: rebuild *)

Binary(bytes) == [kind |-> "Binary", bytes |-> bytes]

Reference(offset, size) == [kind |-> "Reference", offset |-> offset, size |-> size]

OmitSetFirstOnly(omit) == IF omit = <<>> THEN {} ELSE {omit[1]}

\* The HashSet of the omitted indices.
OmitSet(omit) == {omit[k] : k \in 1..Len(omit)}

\* The filename of a rebuilt entry: the decoded string's bytes, else the
\* retained original bytes, else nothing.
RebuildFilename(inspected_entry) ==
    IF IsSome(inspected_entry.filename.decoded)
    THEN AsBytes(Unwrap(inspected_entry.filename.decoded).string)
    ELSE IF IsSome(inspected_entry.filename.original_bytes)
    THEN Unwrap(inspected_entry.filename.original_bytes)
    ELSE <<>>

KeptExtraFieldsWithZip64(extra_fields) ==
    SelectSeq(extra_fields, LAMBDA ef : ef.tag # UnicodePathTag)

KeptExtraFieldsWithUnicodePath(extra_fields) ==
    SelectSeq(extra_fields, LAMBDA ef : ef.tag # Zip64Tag)

\* The extras that are kept: all but ZIP64 and Unicode path.
KeptExtraFields(extra_fields) ==
    SelectSeq(extra_fields, LAMBDA ef : ef.tag # Zip64Tag /\ ef.tag # UnicodePathTag)

RebuildFlagsKeepDescriptor(flags) == SetBit(flags, Utf8Flag)

\* The flags of a rebuilt header: UTF-8 set, data descriptor cleared.
RebuildFlags(flags) == ClearBit(SetBit(flags, Utf8Flag), DataDescriptorFlag)

\* version_needed before any ZIP64 promotion.
BaseVersionNeeded(entry) ==
    Max(Max(entry.cdh.version_needed, entry.lfh.version_needed), 20)

\* iter().map(|ef| 4 + ef.size).sum() in u16.
ExtraFieldLength(extra_fields) ==
    AsU16(SumSeq([i \in 1..Len(extra_fields) |-> AsU16(4 + extra_fields[i].size)]))

Zip64ExtraFieldFirstOnly(values) ==
    LET data == Le64(values[1])
    IN  [tag |-> Zip64Tag, size |-> AsU16(Len(data)), data |-> data]

Zip64ExtraFieldReversed(values) ==
    LET data == Concat([i \in 1..Len(values) |-> Le64(values[Len(values) + 1 - i])])
    IN  [tag |-> Zip64Tag, size |-> AsU16(Len(data)), data |-> data]

\* The ZIP64 extra with the given 64-bit values as data.
Zip64ExtraField(values) ==
    LET data == Concat([i \in 1..Len(values) |-> Le64(values[i])])
    IN  [tag |-> Zip64Tag, size |-> AsU16(Len(data)), data |-> data]

\* The rebuilt local file header of an entry.
RebuildLfh(entry, filename) ==
    LET uncompressed_size == EffectiveUncompressedSize(entry.cdh)
        compressed_size == EffectiveCompressedSize(entry.cdh)
        kept == KeptExtraFields(entry.lfh.extra_fields)
        need_zip64_lfh ==
            GeSentinel32(compressed_size) \/ GeSentinel32(uncompressed_size)
        extra_fields ==
            IF need_zip64_lfh
            THEN <<Zip64ExtraField(<<uncompressed_size, compressed_size>>)>> \o kept
            ELSE kept
    IN  [signature |-> LfhSignature,
         version_needed |-> IF need_zip64_lfh THEN Max(BaseVersionNeeded(entry), 45)
                            ELSE BaseVersionNeeded(entry),
         flags |-> RebuildFlags(entry.lfh.flags),
         compression_method |-> entry.lfh.compression_method,
         last_mod_time |-> entry.lfh.last_mod_time,
         last_mod_date |-> entry.lfh.last_mod_date,
         crc32 |-> entry.cdh.crc32,
         compressed_size |-> IF need_zip64_lfh THEN Sentinel32
                             ELSE AsU32(compressed_size),
         uncompressed_size |-> IF need_zip64_lfh THEN Sentinel32
                               ELSE AsU32(uncompressed_size),
         filename_length |-> AsU16(Len(filename)),
         extra_field_length |-> ExtraFieldLength(extra_fields),
         filename |-> filename,
         extra_fields |-> extra_fields]

\* The rebuilt central directory header of a CentralDirectoryEntryInfo.
RebuildCdh(info) ==
    LET entry == info.entry
        kept == KeptExtraFields(entry.cdh.extra_fields)
        big_uncompressed == GeSentinel32(info.uncompressed_size)
        big_compressed == GeSentinel32(info.compressed_size)
        big_offset == GeSentinel32(info.lfh_offset)
        need_zip64_cdh == big_compressed \/ big_uncompressed \/ big_offset
        values ==
            (IF big_uncompressed THEN <<info.uncompressed_size>> ELSE <<>>)
                \o (IF big_compressed THEN <<info.compressed_size>> ELSE <<>>)
                \o (IF big_offset THEN <<info.lfh_offset>> ELSE <<>>)
        extra_fields ==
            IF need_zip64_cdh THEN <<Zip64ExtraField(values)>> \o kept ELSE kept
    IN  [signature |-> CdhSignature,
         version_made_by |-> (entry.cdh.version_made_by \div 256) * 256 + 63,
         version_needed |-> IF need_zip64_cdh THEN Max(BaseVersionNeeded(entry), 45)
                            ELSE BaseVersionNeeded(entry),
         flags |-> RebuildFlags(entry.cdh.flags),
         compression_method |-> entry.cdh.compression_method,
         last_mod_time |-> entry.cdh.last_mod_time,
         last_mod_date |-> entry.cdh.last_mod_date,
         crc32 |-> info.crc32,
         compressed_size |-> IF big_compressed THEN Sentinel32
                             ELSE AsU32(info.compressed_size),
         uncompressed_size |-> IF big_uncompressed THEN Sentinel32
                               ELSE AsU32(info.uncompressed_size),
         filename_length |-> AsU16(Len(info.filename)),
         extra_field_length |-> ExtraFieldLength(extra_fields),
         file_comment_length |-> entry.cdh.file_comment_length,
         disk_number_start |-> 0,
         internal_file_attributes |-> entry.cdh.internal_file_attributes,
         external_file_attributes |-> entry.cdh.external_file_attributes,
         local_header_offset |-> IF big_offset THEN Sentinel32
                                 ELSE AsU32(info.lfh_offset),
         filename |-> info.filename,
         extra_fields |-> extra_fields,
         file_comment |-> entry.cdh.file_comment]

NeedZip64EocdAlways(cd_start, cd_size, total_entries) == TRUE

NeedZip64EocdStrict(cd_start, cd_size, total_entries) ==
    GeSentinel32(cd_start) \/ GeSentinel32(cd_size) \/ total_entries > 65535

\* Whether the tail needs a ZIP64 end of central directory.
NeedZip64Eocd(cd_start, cd_size, total_entries) ==
    GeSentinel32(cd_start) \/ GeSentinel32(cd_size) \/ total_entries >= 65535

\* The chunks of the tail, written at offset cd_end: the ZIP64 EOCD and its
\* locator when needed, then the EOCD.
RebuildTail(eocd, cd_start, cd_end, total_entries) ==
    LET cd_size == Sub(cd_end, cd_start)
        zip64_eocd_header ==
            [signature |-> Zip64EocdSignature,
             size_of_record |-> FromInt(44),
             version_made_by |-> 63,
             version_needed |-> 45,
             disk_number |-> FromInt(0),
             disk_number_with_eocd |-> FromInt(0),
             total_entries_on_disk |-> FromInt(total_entries),
             total_entries |-> FromInt(total_entries),
             central_directory_size |-> cd_size,
             central_directory_offset |-> cd_start]
        zip64_locator ==
            [signature |-> Zip64LocatorSignature,
             disk_with_eocd |-> FromInt(0),
             eocd_offset |-> cd_end,
             total_disks |-> FromInt(1)]
        end_of_central_directory ==
            [signature |-> EocdSignature,
             disk_number |-> 0,
             disk_number_with_eocd |-> 0,
             entries_on_disk |-> IF total_entries >= 65535 THEN 65535
                                 ELSE AsU16(total_entries),
             total_entries |-> IF total_entries >= 65535 THEN 65535
                               ELSE AsU16(total_entries),
             central_directory_size |-> IF GeSentinel32(cd_size) THEN Sentinel32
                                        ELSE AsU32(cd_size),
             central_directory_offset |-> IF GeSentinel32(cd_start) THEN Sentinel32
                                          ELSE AsU32(cd_start),
             comment_length |-> eocd.comment_length,
             comment |-> eocd.comment]
    IN  (IF NeedZip64Eocd(cd_start, cd_size, total_entries)
         THEN <<Binary(Zip64EocdToBytes(zip64_eocd_header)),
                Binary(Zip64LocatorToBytes(zip64_locator))>>
         ELSE <<>>)
            \o <<Binary(EocdToBytes(end_of_central_directory))>>

\* The number of bytes a chunk stands for.
ChunkSize(chunk) ==
    IF chunk.kind = "Binary" THEN FromInt(Len(chunk.bytes)) ELSE chunk.size

RECURSIVE SumChunks(_)
SumChunks(cs) ==
    IF cs = <<>> THEN U(0, 0) ELSE Add(ChunkSize(Head(cs)), SumChunks(Tail(cs)))

\* The length rebuild takes the ZIP64 EOCD locator to have.
Zip64LocatorSize == 20

\* What the running offset advances by over the tail, were the locator left
\* uncounted.
TailSizeLocatorUncounted(tail) ==
    IF Len(tail) = 3
    THEN Add(FromInt(Len(tail[1].bytes)), FromInt(Len(tail[3].bytes)))
    ELSE FromInt(Len(tail[1].bytes))

\* What the running offset advances by over the tail: the length of the
\* ZIP64 EOCD bytes and 20 for the locator when the two are written, and the
\* length of the EOCD bytes.
TailSize(tail) ==
    IF Len(tail) = 3
    THEN Add(Add(FromInt(Len(tail[1].bytes)), FromInt(Zip64LocatorSize)),
             FromInt(Len(tail[3].bytes)))
    ELSE FromInt(Len(tail[1].bytes))

---------------------------------------------------------------------------
(* The state: one caller that rebuilds an archive, then rebuilds it again    *)
(* with one more index omitted (as test_rebuild_omit_entry does).            *)

VARIABLES
    zip_file,         \* the parsed archive: entries and the EOCD
    config,           \* the InspectConfig
    omit_entries,     \* the omit_entries argument of the current call
    pc,               \* "call", "lfh", "cdh", "done" or "failed"
    inspected,        \* the InspectedArchive of the current call
    index,            \* the position of the running loop, 0-based
    chunks,           \* the chunk list built so far
    current_offset,   \* the running output offset
    new_cd_entries,   \* the CentralDirectoryEntryInfo list
    cd_start_offset,  \* the offset of the first central directory header
    previous,         \* the result of the first call, once the second began
    detector,         \* the detector's answers for this archive's names
    total_entries,    \* the number of retained entries, once counted
    error,            \* the error of the call that failed, else None
    compatibility,    \* ZipProcessor: the CompatibilityLevel of zip_file
    earlier,          \* the archive and level of the ZipProcessor before this one
    blob,             \* the bytes of the file ZipFile::parse reads
    located,          \* what ZipFile::parse found as the EOCD, once it looked
    reader,           \* the ZipReader parse is given, and the build's overflow checks
    parsed,           \* what ZipFile::parse returned and the reads it issued, once it ran
    parsed_fields     \* what ExtraField::parse_all returned for the bytes given, once it ran

\* What only a ZipProcessor (wasm.rs) and ZipFile::parse hold; rebuild leaves
\* it alone.
processor_vars ==
    <<compatibility, earlier, blob, located, reader, parsed, parsed_fields>>

vars == <<zip_file, config, omit_entries, pc, inspected, index, chunks,
          current_offset, new_cd_entries, cd_start_offset, previous, detector,
          total_entries, error, processor_vars>>

NoArchive == [entries |-> <<>>, overall_encoding |-> None,
              contains_sjis_wave_dash |-> FALSE,
              contains_other_wave_dash |-> FALSE,
              contains_other_fullwidth_tilde |-> FALSE]

\* let inspected = InspectedArchive::inspect(zip_file, config)?; and the
\* initialisation of the locals. The detector is a function of the data: a
\* second call on the same archive gets the answers of the first.
RebuildBegin ==
    /\ pc = "call"
    /\ \E g \in IF IsSome(detector) THEN {Unwrap(detector)}
                ELSE DetectorGuesses(DetectorInputs(zip_file, config)) :
          \E r \in {Inspect(zip_file, config, g)} :
              /\ pc' = IF r.ok THEN "lfh" ELSE "failed"
              /\ inspected' = IF r.ok THEN r.value ELSE NoArchive
              /\ error' = IF r.ok THEN None ELSE Some(r.error)
              /\ detector' = Some(g)
    /\ index' = 0
    /\ chunks' = <<>>
    /\ current_offset' = U(0, 0)
    /\ new_cd_entries' = <<>>
    /\ cd_start_offset' = U(0, 0)
    /\ total_entries' = 0
    /\ UNCHANGED <<zip_file, config, omit_entries, previous, processor_vars>>

\* One iteration of the first loop for an omitted index: continue.
LfhOmitted ==
    /\ pc = "lfh"
    /\ index < Len(zip_file.entries)
    /\ index \in OmitSet(omit_entries)
    /\ index' = index + 1
    /\ UNCHANGED <<error, processor_vars, zip_file, config, omit_entries, pc, inspected, chunks,
                   current_offset, new_cd_entries, cd_start_offset, previous, detector,
                   total_entries>>

\* Whether the u16 sum of 4 + size over the extras passes 0xFFFF.
ExtraFieldLengthOverflows(extra_fields) ==
    SumSeq([i \in 1..Len(extra_fields) |-> 4 + extra_fields[i].size]) >= Radix

\* The builds the program may be: the one of the reader at hand, else either.
OverflowChecks ==
    IF IsSome(reader) THEN {Unwrap(reader).overflow_checks} ELSE BOOLEAN

\* One iteration of the first loop for a retained entry: the LFH chunk, the
\* payload reference, and the entry's CentralDirectoryEntryInfo. The sum
\* that gives extra_field_length panics in a build with overflow checks when
\* it passes 0xFFFF, and wraps in one without.
LfhRetained ==
    /\ pc = "lfh"
    /\ index < Len(zip_file.entries)
    /\ index \notin OmitSet(omit_entries)
    /\ LET entry == zip_file.entries[index + 1]
           filename == RebuildFilename(inspected.entries[index + 1])
           compressed_size == EffectiveCompressedSize(entry.cdh)
           lfh == RebuildLfh(entry, filename)
           lfh_bytes == LocalFileHeaderToBytes(lfh)
           lfh_offset == current_offset
       IN  \E overflow_checks \in OverflowChecks :
              IF ExtraFieldLengthOverflows(lfh.extra_fields) /\ overflow_checks
              THEN /\ pc' = "failed"
                   /\ error' = Some("panic: attempt to add with overflow")
                   /\ UNCHANGED <<chunks, current_offset, new_cd_entries, index>>
              ELSE /\ chunks' = chunks \o <<Binary(lfh_bytes),
                                            Reference(entry.file_offset, compressed_size)>>
                   /\ current_offset' =
                        Add(Add(current_offset, FromInt(Len(lfh_bytes))), compressed_size)
                   /\ new_cd_entries' = Append(new_cd_entries,
                        [lfh_offset |-> lfh_offset,
                         filename |-> filename,
                         entry |-> entry,
                         uncompressed_size |-> EffectiveUncompressedSize(entry.cdh),
                         compressed_size |-> compressed_size,
                         crc32 |-> entry.cdh.crc32])
                   /\ index' = index + 1
                   /\ UNCHANGED <<pc, error>>
    /\ UNCHANGED <<processor_vars, zip_file, config, omit_entries, inspected,
                   cd_start_offset, previous, detector, total_entries>>

\* After the first loop: total_entries = new_cd_entries.len() and
\* cd_start_offset = current_offset.
BeginCentralDirectory ==
    /\ pc = "lfh"
    /\ index = Len(zip_file.entries)
    /\ total_entries' = Len(new_cd_entries)
    /\ cd_start_offset' = current_offset
    /\ index' = 0
    /\ pc' = "cdh"
    /\ UNCHANGED <<error, processor_vars, zip_file, config, omit_entries, inspected, chunks,
                   current_offset, new_cd_entries, previous, detector>>

\* One iteration of the second loop: the CDH chunk of a retained entry, or
\* the panic of the sum that gives extra_field_length.
CdhStep ==
    /\ pc = "cdh"
    /\ index < Len(new_cd_entries)
    /\ LET cdh == RebuildCdh(new_cd_entries[index + 1])
           cdh_bytes == CentralDirectoryHeaderToBytes(cdh)
       IN  \E overflow_checks \in OverflowChecks :
              IF ExtraFieldLengthOverflows(cdh.extra_fields) /\ overflow_checks
              THEN /\ pc' = "failed"
                   /\ error' = Some("panic: attempt to add with overflow")
                   /\ UNCHANGED <<chunks, current_offset, index>>
              ELSE /\ chunks' = Append(chunks, Binary(cdh_bytes))
                   /\ current_offset' = Add(current_offset, FromInt(Len(cdh_bytes)))
                   /\ index' = index + 1
                   /\ UNCHANGED <<pc, error>>
    /\ UNCHANGED <<processor_vars, zip_file, config, omit_entries, inspected,
                   new_cd_entries, cd_start_offset, previous, detector,
                   total_entries>>

\* After the second loop: the tail, and Ok((chunks, current_offset)).
WriteTail ==
    /\ pc = "cdh"
    /\ index = Len(new_cd_entries)
    /\ LET tail == RebuildTail(zip_file.eocd, cd_start_offset, current_offset,
                               total_entries)
       IN  /\ chunks' = chunks \o tail
           /\ current_offset' = Add(current_offset, TailSize(tail))
    /\ pc' = "done"
    /\ UNCHANGED <<error, processor_vars, zip_file, config, omit_entries, inspected, index,
                   new_cd_entries, cd_start_offset, previous, detector,
                   total_entries>>

\* The caller keeps the first result and rebuilds again with one more index
\* in omit_entries.
RebuildAgain ==
    /\ pc = "done"
    /\ previous = None
    /\ previous' = Some([omit_entries |-> omit_entries, chunks |-> chunks,
                         total_size |-> current_offset])
    /\ \E i \in 0..Len(zip_file.entries) : omit_entries' = Append(omit_entries, i)
    /\ pc' = "call"
    /\ UNCHANGED <<error, processor_vars, zip_file, config, inspected, index, chunks, current_offset,
                   new_cd_entries, cd_start_offset, detector,
                   total_entries>>

Next ==
    \/ RebuildBegin
    \/ LfhOmitted
    \/ LfhRetained
    \/ BeginCentralDirectory
    \/ CdhStep
    \/ WriteTail
    \/ RebuildAgain

---------------------------------------------------------------------------
(* The archives and configurations the model starts from *)

\* The largest number of entries of an archive.
MaxEntries == 2

\* A 32-bit size field that holds its value, without ZIP64.
Plain(v) == [field |-> v, zip64 |-> None]

\* A saturated 32-bit size field whose value v is in the ZIP64 extra.
Promoted(v) == [field |-> Sentinel32, zip64 |-> Some(v)]

\* compressed and uncompressed size of an entry, as the source CDH has them:
\* small; both beyond 32 bits; exactly 0xFFFFFFFF; small values carried in a
\* ZIP64 extra; 0xFFFFFFFE without ZIP64.
SizeParts ==
    {[compressed |-> Plain(U(0, 5)), uncompressed |-> Plain(U(0, 9))],
     [compressed |-> Promoted(U(65536, 0)), uncompressed |-> Promoted(U(65536, 1))],
     [compressed |-> Plain(U(0, 5)), uncompressed |-> Promoted(Sentinel32)],
     [compressed |-> Promoted(Sentinel32), uncompressed |-> Plain(U(1, 9))],
     [compressed |-> Promoted(U(0, 7)), uncompressed |-> Promoted(U(0, 9))],
     [compressed |-> Plain(U(65535, 65534)), uncompressed |-> Plain(U(0, 9))]}

SmallSizes == [compressed |-> Plain(U(0, 5)), uncompressed |-> Plain(U(0, 9))]

DemotedSizes == [compressed |-> Promoted(U(0, 7)), uncompressed |-> Promoted(U(0, 9))]

\* Extras that are neither ZIP64 nor Unicode path: an extended timestamp
\* (0x5455) and an Info-ZIP Unix extra (0x7875) without data.
TimestampExtra == [tag |-> 21589, size |-> 2, data |-> <<3, 7>>]

UnixExtra == [tag |-> 30837, size |-> 0, data |-> <<>>]

ExtraParts ==
    {[cdh_others |-> <<>>, lfh_others |-> <<>>, file_comment |-> <<>>],
     [cdh_others |-> <<TimestampExtra>>, lfh_others |-> <<TimestampExtra, UnixExtra>>,
      file_comment |-> <<99>>],
     [cdh_others |-> <<UnixExtra, TimestampExtra>>, lfh_others |-> <<UnixExtra>>,
      file_comment |-> <<>>]}

SomeExtras ==
    [cdh_others |-> <<TimestampExtra>>, lfh_others |-> <<TimestampExtra, UnixExtra>>,
     file_comment |-> <<99>>]

\* Flags and filename sources of an entry.
NamePart(cdh_flags, lfh_flags, cdh_filename, lfh_filename, cdh_up, lfh_up) ==
    [cdh_flags |-> cdh_flags, lfh_flags |-> lfh_flags,
     cdh_filename |-> cdh_filename, lfh_filename |-> lfh_filename,
     cdh_unicode_path |-> cdh_up, lfh_unicode_path |-> lfh_up]

UnicodePath(data, crc32_matched) ==
    Some([data |-> data, crc32_matched |-> crc32_matched])

\* An ASCII name under each combination of bits 3 and 11, other bits clear
\* or all set.
FlagParts ==
    {NamePart(f[1], f[2], <<97>>, <<97>>, None, None) :
        f \in {<<0, 0>>, <<8, 2048>>, <<2056, 8>>, <<2048, 2056>>,
               <<65535, 63479>>, <<63487, 65527>>}}

PlainName == NamePart(0, 0, <<97>>, <<97>>, None, None)

\* "a"; 81 60 (Shift_JIS for the wave dash); U+301C in UTF-8 with the UTF-8
\* flag; FF, valid in no multi-byte encoding; 80 with the UTF-8 flag set;
\* "a" / "b" with Unicode-path extras (U+00E9, CRC matched; U+FF5E, not);
\* a UTF-8 byte order mark before FF, which no encoding decodes cleanly.
NameParts ==
    {PlainName,
     NamePart(0, 0, <<129, 96>>, <<129, 96>>, None, None),
     NamePart(2048, 2048, <<227, 128, 156>>, <<227, 128, 156>>, None, None),
     NamePart(0, 0, <<255>>, <<255>>, None, None),
     NamePart(2048, 2056, <<128>>, <<128>>, None, None),
     NamePart(0, 8, <<97>>, <<98>>, UnicodePath(<<195, 169>>, TRUE),
              UnicodePath(<<239, 189, 158>>, FALSE)),
     NamePart(0, 0, <<239, 187, 191, 255>>, <<239, 187, 191, 255>>, None, None)}

\* The 0x0001 extra of a source header holding the given 64-bit values.
SourceZip64Extras(values) ==
    IF values = <<>> THEN <<>> ELSE <<Zip64ExtraField(values)>>

\* The 0x7075 extra of a source header: version 1, the CRC-32 of the name
\* (its four bytes are not read by the code modelled here), the UTF-8 name.
SourceUnicodePathExtras(unicode_path) ==
    IF IsSome(unicode_path)
    THEN <<[tag |-> UnicodePathTag,
            size |-> 5 + Len(Unwrap(unicode_path).data),
            data |-> <<1, 0, 0, 0, 0>> \o Unwrap(unicode_path).data]>>
    ELSE <<>>

\* The extras of a source header: the ZIP64 extra after the first of the
\* other extras, the Unicode-path extra last.
ArrangeExtras(zip64_extras, others, unicode_path_extras) ==
    IF others = <<>> THEN zip64_extras \o unicode_path_extras
    ELSE <<Head(others)>> \o zip64_extras \o Tail(others) \o unicode_path_extras

\* The entry at 1-based position pos, as the parser hands it to rebuild.
MakeEntry(name, sizes, extras, pos) ==
    LET cdh_values ==
            (IF IsSome(sizes.uncompressed.zip64)
             THEN <<Unwrap(sizes.uncompressed.zip64)>> ELSE <<>>)
                \o (IF IsSome(sizes.compressed.zip64)
                    THEN <<Unwrap(sizes.compressed.zip64)>> ELSE <<>>)
        lfh_values ==
            IF cdh_values = <<>> THEN <<>>
            ELSE <<IF IsSome(sizes.uncompressed.zip64)
                   THEN Unwrap(sizes.uncompressed.zip64) ELSE sizes.uncompressed.field,
                   IF IsSome(sizes.compressed.zip64)
                   THEN Unwrap(sizes.compressed.zip64) ELSE sizes.compressed.field>>
    IN  [cdh |->
            [version_made_by |-> 768 + 30,
             version_needed |-> IF pos = 2 THEN 63 ELSE 10,
             flags |-> name.cdh_flags,
             compression_method |-> 8,
             last_mod_time |-> 4660 + pos,
             last_mod_date |-> 22136,
             crc32 |-> U(57005, 48879 + pos),
             compressed_size |-> sizes.compressed.field,
             uncompressed_size |-> sizes.uncompressed.field,
             file_comment_length |-> Len(extras.file_comment),
             internal_file_attributes |-> 1,
             external_file_attributes |-> U(33188, 0),
             filename |-> name.cdh_filename,
             extra_fields |-> ArrangeExtras(SourceZip64Extras(cdh_values),
                                 extras.cdh_others,
                                 SourceUnicodePathExtras(name.cdh_unicode_path)),
             file_comment |-> extras.file_comment,
             zip64 |-> IF cdh_values = <<>> THEN None
                       ELSE Some([uncompressed_size |-> sizes.uncompressed.zip64,
                                  compressed_size |-> sizes.compressed.zip64]),
             unicode_path |-> name.cdh_unicode_path],
         lfh |->
            [version_needed |-> IF pos = 2 THEN 45 ELSE 20,
             flags |-> name.lfh_flags,
             compression_method |-> 8,
             last_mod_time |-> 4660 + pos,
             last_mod_date |-> 22136,
             filename |-> name.lfh_filename,
             extra_fields |-> ArrangeExtras(SourceZip64Extras(lfh_values),
                                 extras.lfh_others,
                                 SourceUnicodePathExtras(name.lfh_unicode_path)),
             unicode_path |-> name.lfh_unicode_path],
         file_offset |-> U(70000 * (pos - 1), 30 + pos)]

\* The archive with the given parts per entry.
MakeZip(names, sizes, extras, comment) ==
    [entries |-> [i \in 1..Len(names) |-> MakeEntry(names[i], sizes[i], extras[i], i)],
     eocd |-> [comment_length |-> Len(comment), comment |-> comment]]

Repeat(v, n) == [i \in 1..n |-> v]

\* Archives that differ in the sizes of their entries.
SizeArchives ==
    UNION {{MakeZip(Repeat(PlainName, n), sizes, Repeat(SomeExtras, n), <<>>) :
                sizes \in [1..n -> SizeParts]} : n \in 0..MaxEntries}

\* Archives that differ in the flags and the extras of their entries; the
\* entries of every other one carry a ZIP64 extra with small values.
FlagArchives ==
    UNION {{MakeZip(names, Repeat(sizes, n), Repeat(extras, n), <<122>>) :
                names \in [1..n -> FlagParts], extras \in ExtraParts,
                sizes \in {SmallSizes, DemotedSizes}} :
           n \in 0..MaxEntries}

\* Archives that differ in the filename sources of their entries; every
\* entry carries a ZIP64 extra with small values and other extras.
NameArchives ==
    UNION {{MakeZip(names, Repeat(DemotedSizes, n), Repeat(SomeExtras, n), <<>>) :
                names \in [1..n -> NameParts]} : n \in 0..MaxEntries}

EncodingConfig(type, label, ignore_utf8_flag) ==
    [type |-> type, label |-> label, ignore_utf8_flag |-> ignore_utf8_flag]

MakeConfig(encoding, strategy, ignore_crc32_mismatch, needs_original_bytes, wave_dash_handling, wave_dash_normalization) ==
    [encoding |-> encoding,
     field_selection_strategy |-> strategy,
     ignore_crc32_mismatch |-> ignore_crc32_mismatch,
     needs_original_bytes |-> needs_original_bytes,
     wave_dash_handling |-> wave_dash_handling,
     wave_dash_normalization |-> wave_dash_normalization]

\* The configuration of the tests of rebuild.rs.
TestConfig ==
    MakeConfig(EncodingConfig("EntryDetected", None, FALSE),
               "CdhUnicodeThenLfhUnicodeThenCdh", FALSE, FALSE,
               "DecodeToFullwidthTilde", "Preserve")

EncodingConfigs ==
    {EncodingConfig("EntryDetected", None, FALSE),
     EncodingConfig("PreferOverallDetected", None, FALSE),
     EncodingConfig("PreferOverallDetected", Some("sjis"), TRUE),
     EncodingConfig("ForceSpecified", Some("shift_jis"), FALSE),
     EncodingConfig("ForceSpecified", Some("latin1"), TRUE),
     EncodingConfig("EntryDetected", Some("no-such-encoding"), FALSE),
     EncodingConfig("ForceSpecified", Some("no-such-encoding"), TRUE)}

\* Configurations: the encoding selection and needs_original_bytes; the
\* field selection; the wave-dash policies.
Configs ==
    {MakeConfig(e, "CdhUnicodeThenLfhUnicodeThenCdh", FALSE, b,
                "DecodeToFullwidthTilde", "Preserve") :
        e \in EncodingConfigs, b \in BOOLEAN}
    \cup
    {MakeConfig(EncodingConfig("EntryDetected", None, FALSE), s, c, TRUE,
                "DecodeToFullwidthTilde", "Preserve") :
        s \in {"LfhUnicodeThenCdhUnicodeThenLfh", "CdhOnly", "LfhUnicodeThenLfh"},
        c \in BOOLEAN}
    \cup
    {MakeConfig(EncodingConfig("ForceSpecified", Some("sjis"), TRUE),
                "LfhUnicodeThenCdhUnicodeThenCdh", TRUE, FALSE, h, n) :
        h \in {"DecodeToFullwidthTilde", "DecodeToWaveDash"},
        n \in {"Preserve", "NormalizeToFullwidthTilde", "NormalizeToWaveDash"}}

\* omit_entries of the first call: nothing, or one index, in range or not.
OmitLists(zip) == {<<>>} \cup {<<i>> : i \in 0..Len(zip.entries)}

Init ==
    /\ \/ /\ zip_file \in SizeArchives \cup FlagArchives
          /\ config = TestConfig
          /\ omit_entries \in OmitLists(zip_file)
       \/ /\ zip_file \in NameArchives
          /\ config \in Configs
          /\ omit_entries = <<>>
    /\ pc = "call"
    /\ inspected = NoArchive
    /\ index = 0
    /\ chunks = <<>>
    /\ current_offset = U(0, 0)
    /\ new_cd_entries = <<>>
    /\ cd_start_offset = U(0, 0)
    /\ previous = None
    /\ detector = None
    /\ total_entries = 0
    /\ error = None
    /\ compatibility = None
    /\ earlier = None
    /\ blob = <<>>
    /\ located = None
    /\ reader = None
    /\ parsed = None
    /\ parsed_fields = None

Spec == Init /\ [][Next]_vars

---------------------------------------------------------------------------
(* The tail of rebuild as a function of the totals of an archive that has    *)
(* more entries than can be enumerated                                        *)

RECURSIVE Times(_, _)
\* The u64 product of a and the natural number k.
Times(a, k) ==
    IF k = 0 THEN U(0, 0)
    ELSE Add(IF k % 2 = 1 THEN a ELSE U(0, 0), Times(Add(a, a), k \div 2))

\* Numbers of retained entries around 0xFFFF.
EntryCounts == {1, 65534, 65535, 65536, 65537}

\* Bytes per entry before the central directory (LFH and payload) and in it
\* (CDH with name, extras and comment): the least, and those that make the
\* total of 65535 or 65536 entries 0xFFFFFFFF or 0x100000000.
LfhUnits == {30, 65536, 65537}

CdhUnits == {46, 65536, 65537}

\* The state after the two loops of rebuild over n retained entries of the
\* given sizes, as far as the tail reads it.
TailInit ==
    /\ \E n \in EntryCounts, lfh_unit \in LfhUnits, cdh_unit \in CdhUnits :
          /\ total_entries = n
          /\ cd_start_offset = Times(FromInt(lfh_unit), n)
          /\ current_offset = Add(Times(FromInt(lfh_unit), n), Times(FromInt(cdh_unit), n))
    /\ zip_file \in {[entries |-> <<>>, eocd |-> [comment_length |-> Len(c), comment |-> c]] :
                        c \in {<<>>, <<122, 105, 112>>}}
    /\ config = TestConfig
    /\ omit_entries = <<>>
    /\ pc = "tail"
    /\ inspected = NoArchive
    /\ index = 0
    /\ chunks = <<>>
    /\ new_cd_entries = <<>>
    /\ previous = None
    /\ detector = None
    /\ error = None
    /\ compatibility = None
    /\ earlier = None
    /\ blob = <<>>
    /\ located = None
    /\ reader = None
    /\ parsed = None
    /\ parsed_fields = None

\* Lines 261-331 of rebuild on these totals; the chunks are those of the
\* tail alone.
ApplyTail ==
    /\ pc = "tail"
    /\ LET tail == RebuildTail(zip_file.eocd, cd_start_offset, current_offset,
                               total_entries)
       IN  /\ chunks' = tail
           /\ current_offset' = Add(current_offset, TailSize(tail))
    /\ pc' = "tail_done"
    /\ UNCHANGED <<error, processor_vars, zip_file, config, omit_entries, inspected, index,
                   new_cd_entries, cd_start_offset, previous, detector,
                   total_entries>>

NextWithTail == Next \/ ApplyTail

SpecWithTail == (Init \/ TailInit) /\ [][NextWithTail]_vars

---------------------------------------------------------------------------
(* parse.rs: the header parsers, used to read the rebuilt bytes back *)

RECURSIVE ParseAllFromLenient(_, _)
\* The loop without the test for bytes left after the last record.
ParseAllFromLenient(data, offset) ==
    IF offset + 4 <= Len(data)
    THEN LET tag == parse_u16_le(Slice(data, offset, offset + 2))
             size == parse_u16_le(Slice(data, offset + 2, offset + 4))
         IN  IF offset + 4 + size > Len(data) THEN Err("InvalidData")
             ELSE LET rest == ParseAllFromLenient(data, offset + 4 + size)
                      field == [tag |-> tag, size |-> size,
                                data |-> Slice(data, offset + 4, offset + 4 + size)]
                  IN  IF rest.ok THEN Ok(<<field>> \o rest.value) ELSE rest
    ELSE Ok(<<>>)

RECURSIVE ParseAllFrom(_, _)
\* The loop of ExtraField::parse_all from the given offset.
ParseAllFrom(data, offset) ==
    IF offset + 4 <= Len(data)
    THEN LET tag == parse_u16_le(Slice(data, offset, offset + 2))
             size == parse_u16_le(Slice(data, offset + 2, offset + 4))
         IN  IF offset + 4 + size > Len(data) THEN Err("InvalidData")
             ELSE LET rest == ParseAllFrom(data, offset + 4 + size)
                      field == [tag |-> tag, size |-> size,
                                data |-> Slice(data, offset + 4, offset + 4 + size)]
                  IN  IF rest.ok THEN Ok(<<field>> \o rest.value) ELSE rest
    ELSE IF offset # Len(data) THEN Err("InvalidData")
    ELSE Ok(<<>>)

\* ExtraField::parse_all
parse_all(data) == ParseAllFrom(data, 0)

\* LocalFileHeader::parse
LocalFileHeaderParse(data, offset) ==
    IF Len(data) < 30 THEN Err("InvalidData")
    ELSE IF parse_u32_le(Slice(data, 0, 4)) # LfhSignature THEN Err("InvalidData")
    ELSE LET file_name_length == parse_u16_le(Slice(data, 26, 28))
             extra_field_length == parse_u16_le(Slice(data, 28, 30))
             extra_fields ==
                parse_all(Slice(data, 30 + file_name_length,
                                30 + file_name_length + extra_field_length))
         IN  IF Len(data) < 30 + file_name_length + extra_field_length
             THEN Err("InvalidData")
             ELSE IF ~extra_fields.ok THEN extra_fields
             ELSE Ok([signature |-> parse_u32_le(Slice(data, 0, 4)),
                      version_needed |-> parse_u16_le(Slice(data, 4, 6)),
                      flags |-> parse_u16_le(Slice(data, 6, 8)),
                      compression_method |-> parse_u16_le(Slice(data, 8, 10)),
                      last_mod_time |-> parse_u16_le(Slice(data, 10, 12)),
                      last_mod_date |-> parse_u16_le(Slice(data, 12, 14)),
                      crc32 |-> parse_u32_le(Slice(data, 14, 18)),
                      compressed_size |-> parse_u32_le(Slice(data, 18, 22)),
                      uncompressed_size |-> parse_u32_le(Slice(data, 22, 26)),
                      file_name_length |-> file_name_length,
                      extra_field_length |-> extra_field_length,
                      file_name |-> Slice(data, 30, 30 + file_name_length),
                      extra_fields |-> extra_fields.value,
                      file_data_offset |->
                        Add(offset, FromInt(30 + file_name_length + extra_field_length)),
                      file_data_size |-> parse_u32_le(Slice(data, 18, 22))])

\* CentralDirectoryHeader::parse
CentralDirectoryHeaderParse(data) ==
    IF Len(data) < 46 THEN Err("InvalidData")
    ELSE IF parse_u32_le(Slice(data, 0, 4)) # CdhSignature THEN Err("InvalidData")
    ELSE LET file_name_length == parse_u16_le(Slice(data, 28, 30))
             extra_field_length == parse_u16_le(Slice(data, 30, 32))
             file_comment_length == parse_u16_le(Slice(data, 32, 34))
             name_end == 46 + file_name_length
             extra_end == name_end + extra_field_length
             expected_len == extra_end + file_comment_length
             extra_fields == parse_all(Slice(data, name_end, extra_end))
         IN  IF Len(data) < expected_len THEN Err("InvalidData")
             ELSE IF ~extra_fields.ok THEN extra_fields
             ELSE Ok([signature |-> parse_u32_le(Slice(data, 0, 4)),
                      version_made_by |-> parse_u16_le(Slice(data, 4, 6)),
                      version_needed |-> parse_u16_le(Slice(data, 6, 8)),
                      flags |-> parse_u16_le(Slice(data, 8, 10)),
                      compression_method |-> parse_u16_le(Slice(data, 10, 12)),
                      last_mod_time |-> parse_u16_le(Slice(data, 12, 14)),
                      last_mod_date |-> parse_u16_le(Slice(data, 14, 16)),
                      crc32 |-> parse_u32_le(Slice(data, 16, 20)),
                      compressed_size |-> parse_u32_le(Slice(data, 20, 24)),
                      uncompressed_size |-> parse_u32_le(Slice(data, 24, 28)),
                      file_name_length |-> file_name_length,
                      extra_field_length |-> extra_field_length,
                      file_comment_length |-> file_comment_length,
                      disk_number_start |-> parse_u16_le(Slice(data, 34, 36)),
                      internal_file_attributes |-> parse_u16_le(Slice(data, 36, 38)),
                      external_file_attributes |-> parse_u32_le(Slice(data, 38, 42)),
                      local_header_offset |-> parse_u32_le(Slice(data, 42, 46)),
                      file_name |-> Slice(data, 46, name_end),
                      extra_fields |-> extra_fields.value,
                      file_comment |-> Slice(data, extra_end, expected_len)])

\* EndOfCentralDirectory::parse
EndOfCentralDirectoryParse(data) ==
    IF Len(data) < 22 THEN Err("InvalidData")
    ELSE IF parse_u32_le(Slice(data, 0, 4)) # EocdSignature THEN Err("InvalidData")
    ELSE LET comment_length == parse_u16_le(Slice(data, 20, 22))
         IN  IF Len(data) < 22 + comment_length THEN Err("InvalidData")
             ELSE Ok([signature |-> parse_u32_le(Slice(data, 0, 4)),
                      disk_number |-> parse_u16_le(Slice(data, 4, 6)),
                      disk_number_with_eocd |-> parse_u16_le(Slice(data, 6, 8)),
                      entries_on_disk |-> parse_u16_le(Slice(data, 8, 10)),
                      total_entries |-> parse_u16_le(Slice(data, 10, 12)),
                      central_directory_size |-> parse_u32_le(Slice(data, 12, 16)),
                      central_directory_offset |-> parse_u32_le(Slice(data, 16, 20)),
                      comment_length |-> comment_length,
                      comment |-> Slice(data, 22, 22 + comment_length)])

\* Zip64EndOfCentralDirectoryLocator::parse
Zip64EndOfCentralDirectoryLocatorParse(data) ==
    IF Len(data) # 20 THEN Err("InvalidData")
    ELSE IF parse_u32_le(Slice(data, 0, 4)) # Zip64LocatorSignature THEN Err("InvalidData")
    ELSE Ok([signature |-> parse_u32_le(Slice(data, 0, 4)),
             disk_with_eocd |-> parse_u32_le(Slice(data, 4, 8)),
             eocd_offset |-> parse_u64_le(Slice(data, 8, 16)),
             total_disks |-> parse_u32_le(Slice(data, 16, 20))])

\* Zip64EndOfCentralDirectoryHeader::parse
Zip64EndOfCentralDirectoryHeaderParse(data) ==
    IF Len(data) # 56 THEN Err("InvalidData")
    ELSE IF parse_u32_le(Slice(data, 0, 4)) # Zip64EocdSignature THEN Err("InvalidData")
    ELSE Ok([signature |-> parse_u32_le(Slice(data, 0, 4)),
             size_of_record |-> parse_u64_le(Slice(data, 4, 12)),
             version_made_by |-> parse_u16_le(Slice(data, 12, 14)),
             version_needed |-> parse_u16_le(Slice(data, 14, 16)),
             disk_number |-> parse_u32_le(Slice(data, 16, 20)),
             disk_number_with_eocd |-> parse_u32_le(Slice(data, 20, 24)),
             total_entries_on_disk |-> parse_u64_le(Slice(data, 24, 32)),
             total_entries |-> parse_u64_le(Slice(data, 32, 40)),
             central_directory_size |-> parse_u64_le(Slice(data, 40, 48)),
             central_directory_offset |-> parse_u64_le(Slice(data, 48, 56))])

\* The ZIP64 extended information of a header, read from the data of its
\* 0x0001 extra: an 8-byte value for each host field that is saturated, in
\* the order uncompressed size, compressed size, local header offset;
\* trailing bytes are ignored.
Zip64ExtendedInfoParse(data, uncompressed_size, compressed_size, local_header_offset) ==
    LET has_unc == uncompressed_size = Sentinel32
        has_comp == compressed_size = Sentinel32
        has_off == local_header_offset = Sentinel32
        at_comp == IF has_unc THEN 8 ELSE 0
        at_off == at_comp + (IF has_comp THEN 8 ELSE 0)
        Read(has, at) ==
            IF has /\ at + 8 <= Len(data)
            THEN Some(parse_u64_le(Slice(data, at, at + 8))) ELSE None
    IN  [uncompressed_size |-> Read(has_unc, 0),
         compressed_size |-> Read(has_comp, at_comp),
         local_header_offset |-> Read(has_off, at_off)]

---------------------------------------------------------------------------
(* The rebuilt archive as its chunks show it *)

\* The signature a Binary chunk starts with.
HasSignature(chunk, signature) ==
    /\ chunk.kind = "Binary"
    /\ Len(chunk.bytes) >= 4
    /\ parse_u32_le(Slice(chunk.bytes, 0, 4)) = signature

IsLfhChunk(chunk) == HasSignature(chunk, LfhSignature)

IsCdhChunk(chunk) == HasSignature(chunk, CdhSignature)

\* The parsed local file headers and central directory headers of the chunk
\* list, in chunk order.
RebuiltLfhs ==
    LET found == SelectSeq(chunks, IsLfhChunk)
    IN  [i \in 1..Len(found) |-> LocalFileHeaderParse(found[i].bytes, U(0, 0))]

RebuiltCdhs ==
    LET found == SelectSeq(chunks, IsCdhChunk)
    IN  [i \in 1..Len(found) |-> CentralDirectoryHeaderParse(found[i].bytes)]

\* Index i is somewhere in the omit list.
OmittedBy(omit, i) == \E k \in 1..Len(omit) : omit[k] = i

\* The 0-based indices of the entries the current call retains, ascending.
RECURSIVE RetainedFrom(_)
RetainedFrom(i) ==
    IF i >= Len(zip_file.entries) THEN <<>>
    ELSE (IF OmittedBy(omit_entries, i) THEN <<>> ELSE <<i>>) \o RetainedFrom(i + 1)

Retained == RetainedFrom(0)

\* The source entry of the k-th retained entry.
RetainedEntry(k) == zip_file.entries[Retained[k] + 1]

Done == pc = "done"

---------------------------------------------------------------------------
(* Claims *)

\* C1: every rebuilt local file header and every rebuilt central directory
\* header has flag bit 11 (0x0800) set and flag bit 3 (0x0008) cleared,
\* whatever the flags of the source headers were.
C1_FlagsUtf8SetDescriptorCleared ==
    /\ \A k \in 1..Len(RebuiltLfhs) :
          /\ RebuiltLfhs[k].ok
          /\ HasBit(RebuiltLfhs[k].value.flags, Utf8Flag)
          /\ ~HasBit(RebuiltLfhs[k].value.flags, DataDescriptorFlag)
    /\ \A k \in 1..Len(RebuiltCdhs) :
          /\ RebuiltCdhs[k].ok
          /\ HasBit(RebuiltCdhs[k].value.flags, Utf8Flag)
          /\ ~HasBit(RebuiltCdhs[k].value.flags, DataDescriptorFlag)
    /\ Done => Len(RebuiltLfhs) = Len(Retained) /\ Len(RebuiltCdhs) = Len(Retained)

\* A finished rebuild of two entries: one whose source LFH has bit 3 set and
\* bit 11 clear, one whose source CDH has.
C1_Witness ==
    /\ Done
    /\ Len(Retained) = 2
    /\ \E k \in 1..2 :
          /\ HasBit(RetainedEntry(k).lfh.flags, DataDescriptorFlag)
          /\ ~HasBit(RetainedEntry(k).lfh.flags, Utf8Flag)
    /\ \E k \in 1..2 :
          /\ HasBit(RetainedEntry(k).cdh.flags, DataDescriptorFlag)
          /\ ~HasBit(RetainedEntry(k).cdh.flags, Utf8Flag)

IsEocdChunk(chunk) == HasSignature(chunk, EocdSignature)

IsZip64EocdChunk(chunk) == HasSignature(chunk, Zip64EocdSignature)

IsZip64LocatorChunk(chunk) == HasSignature(chunk, Zip64LocatorSignature)

IsReference(chunk) == chunk.kind = "Reference"

\* The chunks after the headers and payloads of r retained entries.
TailChunks(r) == SubSeq(chunks, 3 * r + 1, Len(chunks))

\* The size of the rebuilt central directory: its header chunks, summed.
RebuiltCdSize == SumChunks(SelectSeq(chunks, IsCdhChunk))

\* C2: the returned chunk list is, for each retained entry in ascending index
\* order, its Binary LFH chunk and then its Reference chunk; then one Binary
\* CDH chunk per retained entry in the same order; then, only when the
\* central directory's offset or size reaches 0xFFFFFFFF or there are 0xFFFF
\* entries or more, a ZIP64-EOCD chunk and a locator chunk; then one EOCD
\* chunk, the last chunk. At no time is a Reference chunk behind a CDH chunk.
C2_ChunkOrder ==
    /\ \A i, j \in 1..Len(chunks) :
          i < j /\ IsCdhChunk(chunks[i]) => ~IsReference(chunks[j])
    /\ Done =>
          LET r == Len(Retained)
              tail == TailChunks(r)
          IN  /\ Len(chunks) >= 3 * r + 1
              /\ \A k \in 1..r :
                    /\ IsLfhChunk(chunks[2 * k - 1])
                    /\ LocalFileHeaderParse(chunks[2 * k - 1].bytes, U(0, 0)).value.last_mod_time
                          = RetainedEntry(k).lfh.last_mod_time
                    /\ IsReference(chunks[2 * k])
                    /\ chunks[2 * k].offset = RetainedEntry(k).file_offset
                    /\ IsCdhChunk(chunks[2 * r + k])
                    /\ CentralDirectoryHeaderParse(chunks[2 * r + k].bytes).value.last_mod_time
                          = RetainedEntry(k).cdh.last_mod_time
              /\ \A k \in 1..(r - 1) : Retained[k] < Retained[k + 1]
              /\ IsEocdChunk(tail[Len(tail)])
              /\ \/ Len(tail) = 1
                 \/ /\ Len(tail) = 3
                    /\ IsZip64EocdChunk(tail[1])
                    /\ IsZip64LocatorChunk(tail[2])
                    /\ \/ ~Less(cd_start_offset, Sentinel32)
                       \/ ~Less(RebuiltCdSize, Sentinel32)
                       \/ r >= 65535

\* A finished rebuild of two entries that ends with the ZIP64 pair and the EOCD.
C2_Witness ==
    /\ Done
    /\ Len(Retained) = 2
    /\ Len(chunks) = 9
    /\ IsZip64EocdChunk(chunks[7])

\* The compressed size of a source entry: the 64-bit value of the ZIP64 slot
\* of its CDH when that holds one, else the 32-bit field.
TrueCompressedSize(entry) ==
    IF entry.cdh.zip64 # None /\ entry.cdh.zip64[1].compressed_size # None
    THEN entry.cdh.zip64[1].compressed_size[1]
    ELSE entry.cdh.compressed_size

TrueUncompressedSize(entry) ==
    IF entry.cdh.zip64 # None /\ entry.cdh.zip64[1].uncompressed_size # None
    THEN entry.cdh.zip64[1].uncompressed_size[1]
    ELSE entry.cdh.uncompressed_size

\* The number of bytes of a parsed LFH, CDH or EOCD.
LfhLen(h) == 30 + h.file_name_length + h.extra_field_length

CdhLen(h) == 46 + h.file_name_length + h.extra_field_length + h.file_comment_length

\* A Binary chunk that is one header and nothing more.
IsBareHeader(chunk) ==
    \/ /\ IsLfhChunk(chunk)
       /\ LocalFileHeaderParse(chunk.bytes, U(0, 0)).ok
       /\ Len(chunk.bytes) = LfhLen(LocalFileHeaderParse(chunk.bytes, U(0, 0)).value)
    \/ /\ IsCdhChunk(chunk)
       /\ CentralDirectoryHeaderParse(chunk.bytes).ok
       /\ Len(chunk.bytes) = CdhLen(CentralDirectoryHeaderParse(chunk.bytes).value)
    \/ /\ IsEocdChunk(chunk)
       /\ EndOfCentralDirectoryParse(chunk.bytes).ok
       /\ Len(chunk.bytes) = 22 + EndOfCentralDirectoryParse(chunk.bytes).value.comment_length
    \/ IsZip64EocdChunk(chunk) /\ Zip64EndOfCentralDirectoryHeaderParse(chunk.bytes).ok
    \/ IsZip64LocatorChunk(chunk) /\ Zip64EndOfCentralDirectoryLocatorParse(chunk.bytes).ok

\* C3: the Reference chunks of a finished rebuild are one per retained entry,
\* in order, each with the entry's file-data offset as offset and the
\* entry's effective compressed size as size; every Binary chunk is one
\* header and holds no byte beyond it.
C3_PayloadByReference ==
    /\ \A i \in 1..Len(chunks) : IsReference(chunks[i]) \/ IsBareHeader(chunks[i])
    /\ Done =>
          SelectSeq(chunks, IsReference)
            = [k \in 1..Len(Retained) |->
                  [kind |-> "Reference",
                   offset |-> RetainedEntry(k).file_offset,
                   size |-> TrueCompressedSize(RetainedEntry(k))]]

\* A finished rebuild of two entries, one whose compressed size is in the
\* ZIP64 extra of its CDH and one whose is in the 32-bit field.
C3_Witness ==
    /\ Done
    /\ Len(Retained) = 2
    /\ RetainedEntry(1).cdh.zip64 # None
    /\ RetainedEntry(1).cdh.zip64[1].compressed_size # None
    /\ RetainedEntry(2).cdh.zip64 = None
    /\ Len(SelectSeq(chunks, IsReference)) = 2

\* The entries of the model's archives differ in last_mod_time and in
\* file_offset: the chunks of the entry with 0-based index i.
HasLfhOf(i) ==
    \E c \in 1..Len(chunks) :
        /\ IsLfhChunk(chunks[c])
        /\ LocalFileHeaderParse(chunks[c].bytes, U(0, 0)).value.last_mod_time
              = zip_file.entries[i + 1].lfh.last_mod_time

HasReferenceOf(i) ==
    \E c \in 1..Len(chunks) :
        IsReference(chunks[c]) /\ chunks[c].offset = zip_file.entries[i + 1].file_offset

HasCdhOf(i) ==
    \E c \in 1..Len(chunks) :
        /\ IsCdhChunk(chunks[c])
        /\ CentralDirectoryHeaderParse(chunks[c].bytes).value.last_mod_time
              = zip_file.entries[i + 1].cdh.last_mod_time

\* The parsed EOCD chunks and ZIP64-EOCD chunks of the chunk list.
RebuiltEocds ==
    LET found == SelectSeq(chunks, IsEocdChunk)
    IN  [i \in 1..Len(found) |-> EndOfCentralDirectoryParse(found[i].bytes)]

RebuiltZip64Eocds ==
    LET found == SelectSeq(chunks, IsZip64EocdChunk)
    IN  [i \in 1..Len(found) |-> Zip64EndOfCentralDirectoryHeaderParse(found[i].bytes)]

\* Each entry has its three chunks if its index is not omitted, and none of
\* them if it is.
EmittedIffNotOmitted ==
    \A i \in 0..(Len(zip_file.entries) - 1) :
        IF OmittedBy(omit_entries, i)
        THEN ~HasLfhOf(i) /\ ~HasReferenceOf(i) /\ ~HasCdhOf(i)
        ELSE HasLfhOf(i) /\ HasReferenceOf(i) /\ HasCdhOf(i)

\* The second call against the first: an index out of range or omitted
\* before changes nothing, any other makes the total size smaller.
OmissionEffect ==
    previous # None =>
        LET i == omit_entries[Len(omit_entries)]
            first == previous[1]
        IN  IF i >= Len(zip_file.entries) \/ OmittedBy(first.omit_entries, i)
            THEN chunks = first.chunks /\ current_offset = first.total_size
            ELSE Less(current_offset, first.total_size)

\* The counts of the ZIP64-EOCD, when there is one, are n.
Zip64CountsAre(n) ==
    \A k \in 1..Len(RebuiltZip64Eocds) :
        /\ RebuiltZip64Eocds[k].value.total_entries_on_disk = FromInt(n)
        /\ RebuiltZip64Eocds[k].value.total_entries = FromInt(n)

\* The counts of the EOCD are n.
EocdCountsAre(n) ==
    /\ Len(RebuiltEocds) = 1
    /\ RebuiltEocds[1].value.entries_on_disk = n
    /\ RebuiltEocds[1].value.total_entries = n

\* C4 (amended): rebuild emits an LFH, a Reference and a CDH for index i iff
\* i is not in omit_entries; the entry counts of the ZIP64-EOCD, when
\* present, are the number of retained entries, and those of the EOCD are
\* that number when it is below 0xFFFF and 0xFFFF otherwise; an omitted
\* index that is out of range or repeated has no effect, and omitting one
\* more in-range index makes the returned total size strictly smaller.
C4_OmitEntries ==
    /\ Done =>
          /\ EmittedIffNotOmitted
          /\ OmissionEffect
          /\ EocdCountsAre(Min(Len(Retained), 65535))
          /\ Zip64CountsAre(Len(Retained))
    /\ pc = "tail_done" =>
          /\ EocdCountsAre(Min(total_entries, 65535))
          /\ Zip64CountsAre(total_entries)

\* C4 as stated: the counts of the EOCD, too, are the number of retained
\* entries, whatever that number is.
C4_AsStated ==
    /\ Done =>
          /\ EmittedIffNotOmitted
          /\ OmissionEffect
          /\ EocdCountsAre(Len(Retained))
          /\ Zip64CountsAre(Len(Retained))
    /\ pc = "tail_done" =>
          /\ EocdCountsAre(total_entries)
          /\ Zip64CountsAre(total_entries)

\* The second call is done: it omitted index 0 of two entries, the first
\* call none.
C4_Witness ==
    /\ Done
    /\ previous # None
    /\ previous[1].omit_entries = <<>>
    /\ omit_entries = <<0>>
    /\ Len(zip_file.entries) = 2
    /\ Len(SelectSeq(chunks, IsLfhChunk)) = 1

\* The bytes of the filename source inspect selected for the k-th retained
\* entry, and the decoded string inspect produced for it, if any.
SelectedBytes(k) == Predetect(zip_file, config)[Retained[k] + 1].original_bytes

DecodedOf(k) == inspected.entries[Retained[k] + 1].filename.decoded

\* C5 as stated: whatever needs_original_bytes is, the filename written for
\* a retained entry is the UTF-8 bytes of the decoded string when inspect
\* produced one, and else the original bytes of the selected source.
C5_FilenameOrOriginalBytes ==
    Done =>
        /\ Len(RebuiltLfhs) = Len(Retained)
        /\ Len(RebuiltCdhs) = Len(Retained)
        /\ \A k \in 1..Len(Retained) :
              LET expected == IF DecodedOf(k) # None
                              THEN AsBytes(DecodedOf(k)[1].string)
                              ELSE SelectedBytes(k)
              IN  /\ RebuiltLfhs[k].value.file_name = expected
                  /\ RebuiltCdhs[k].value.file_name = expected

\* What the code does instead: with no decoded string and
\* needs_original_bytes false, the filename written is empty.
C5_EmptyWithoutOriginalBytes ==
    Done =>
        \A k \in 1..Len(Retained) :
            LET expected == IF DecodedOf(k) # None
                            THEN AsBytes(DecodedOf(k)[1].string)
                            ELSE IF config.needs_original_bytes THEN SelectedBytes(k)
                            ELSE <<>>
            IN  /\ RebuiltLfhs[k].value.file_name = expected
                /\ RebuiltCdhs[k].value.file_name = expected

\* A finished rebuild with needs_original_bytes false of the entry named
\* EF BB BF FF, for which inspect produced no decoded string: the name
\* written is empty.
C5_Witness ==
    /\ Done
    /\ ~config.needs_original_bytes
    /\ \E k \in 1..Len(Retained) :
          /\ DecodedOf(k) = None
          /\ SelectedBytes(k) = <<239, 187, 191, 255>>
          /\ RebuiltLfhs[k].value.file_name = <<>>

\* C6 as stated: the filename bytes written for a retained entry are valid
\* UTF-8 and decode under UTF-8 to the string inspect produced for the entry;
\* the rebuilt LFH and CDH of the entry carry the same filename bytes.
C6_FilenameLaw ==
    Done =>
        /\ Len(RebuiltLfhs) = Len(Retained)
        /\ Len(RebuiltCdhs) = Len(Retained)
        /\ \A k \in 1..Len(Retained) :
              LET name == RebuiltLfhs[k].value.file_name
              IN  /\ Utf8Valid(name)
                  /\ DecodedOf(k) # None =>
                        DecodeFrom(name, 1, UTF_8).string = DecodedOf(k)[1].string
                  /\ RebuiltCdhs[k].value.file_name = name

\* What holds: the law for the entries inspect decoded, and equal names in
\* the LFH and the CDH of every entry.
C6_FilenameLawWhenDecoded ==
    Done =>
        \A k \in 1..Len(Retained) :
            LET name == RebuiltLfhs[k].value.file_name
            IN  /\ DecodedOf(k) # None =>
                      /\ Utf8Valid(name)
                      /\ DecodeFrom(name, 1, UTF_8).string = DecodedOf(k)[1].string
                /\ RebuiltCdhs[k].value.file_name = name

\* A finished rebuild with needs_original_bytes true of the entry named
\* EF BB BF FF, which inspect did not decode: its rebuilt name is not valid
\* UTF-8 under a set UTF-8 flag.
C6_Witness ==
    /\ Done
    /\ config.needs_original_bytes
    /\ \E k \in 1..Len(Retained) :
          /\ DecodedOf(k) = None
          /\ RebuiltLfhs[k].value.file_name = <<239, 187, 191, 255>>
          /\ ~Utf8Valid(RebuiltLfhs[k].value.file_name)
          /\ HasBit(RebuiltLfhs[k].value.flags, Utf8Flag)

\* The byte position of the k-th retained entry's LFH in the output: the
\* sizes of the chunks before it, summed.
LfhPosition(k) == SumChunks(SubSeq(chunks, 1, 2 * k - 2))

\* A header has an extra field with the given tag.
HasExtra(header, tag) ==
    \E e \in 1..Len(header.extra_fields) : header.extra_fields[e].tag = tag

\* The 32-bit fields of the k-th rebuilt LFH and CDH hold the true values.
FieldsHoldTrueValues(k) ==
    /\ RebuiltLfhs[k].value.compressed_size = TrueCompressedSize(RetainedEntry(k))
    /\ RebuiltLfhs[k].value.uncompressed_size = TrueUncompressedSize(RetainedEntry(k))
    /\ RebuiltCdhs[k].value.compressed_size = TrueCompressedSize(RetainedEntry(k))
    /\ RebuiltCdhs[k].value.uncompressed_size = TrueUncompressedSize(RetainedEntry(k))
    /\ RebuiltCdhs[k].value.local_header_offset = LfhPosition(k)

NoZip64Extra(k) ==
    /\ ~HasExtra(RebuiltLfhs[k].value, Zip64Tag)
    /\ ~HasExtra(RebuiltCdhs[k].value, Zip64Tag)

\* v is below 0xFFFFFFFF.
BelowSentinel(v) == v.hi < 65535 \/ (v.hi = 65535 /\ v.lo < 65535)

\* v is at most 0xFFFFFFFF: it fits in 32 bits.
FitsIn32Bits(v) == v.hi <= 65535

\* C7 (amended): for a retained entry whose effective uncompressed size,
\* effective compressed size and rebuilt local-header offset are all below
\* 0xFFFFFFFF, neither the rebuilt LFH nor the rebuilt CDH has a 0x0001 extra
\* and their 32-bit fields hold the true values, also when the source
\* headers had a 0x0001 extra.
C7_NoZip64WhenBelowSentinel ==
    Done =>
        /\ Len(RebuiltLfhs) = Len(Retained)
        /\ Len(RebuiltCdhs) = Len(Retained)
        /\ \A k \in 1..Len(Retained) :
              /\ BelowSentinel(TrueUncompressedSize(RetainedEntry(k)))
              /\ BelowSentinel(TrueCompressedSize(RetainedEntry(k)))
              /\ BelowSentinel(LfhPosition(k))
              => NoZip64Extra(k) /\ FieldsHoldTrueValues(k)

\* C7 as stated: the same for every entry whose three values fit in 32 bits.
C7_NoZip64WhenFitsIn32Bits ==
    Done =>
        \A k \in 1..Len(Retained) :
            /\ FitsIn32Bits(TrueUncompressedSize(RetainedEntry(k)))
            /\ FitsIn32Bits(TrueCompressedSize(RetainedEntry(k)))
            /\ FitsIn32Bits(LfhPosition(k))
            => NoZip64Extra(k) /\ FieldsHoldTrueValues(k)

\* A finished rebuild of an entry whose source CDH and LFH carry a 0x0001
\* extra with small values, behind a first entry of small size.
C7_Witness ==
    /\ Done
    /\ Len(Retained) = 2
    /\ HasExtra(RetainedEntry(2).cdh, Zip64Tag)
    /\ HasExtra(RetainedEntry(2).lfh, Zip64Tag)
    /\ BelowSentinel(TrueUncompressedSize(RetainedEntry(2)))
    /\ BelowSentinel(TrueCompressedSize(RetainedEntry(2)))
    /\ BelowSentinel(LfhPosition(2))
    /\ NoZip64Extra(2)

\* C8: in the rebuilt LFH of a retained entry, if the effective compressed or
\* uncompressed size is 0xFFFFFFFF or more, both size fields are 0xFFFFFFFF,
\* the first extra is a 0x0001 extra of 16 data bytes, the 64-bit
\* uncompressed size and then the 64-bit compressed size, no other extra has
\* that tag, and version_needed is at least 45; otherwise the size fields
\* hold the true sizes and there is no 0x0001 extra.
C8_LfhZip64Promotion ==
    Done =>
        /\ Len(RebuiltLfhs) = Len(Retained)
        /\ \A k \in 1..Len(Retained) :
              LET lfh == RebuiltLfhs[k].value
                  unc == TrueUncompressedSize(RetainedEntry(k))
                  comp == TrueCompressedSize(RetainedEntry(k))
              IN  IF ~BelowSentinel(unc) \/ ~BelowSentinel(comp)
                  THEN /\ lfh.compressed_size = Sentinel32
                       /\ lfh.uncompressed_size = Sentinel32
                       /\ Len(lfh.extra_fields) >= 1
                       /\ lfh.extra_fields[1].tag = Zip64Tag
                       /\ lfh.extra_fields[1].size = 16
                       /\ Len(lfh.extra_fields[1].data) = 16
                       /\ parse_u64_le(Slice(lfh.extra_fields[1].data, 0, 8)) = unc
                       /\ parse_u64_le(Slice(lfh.extra_fields[1].data, 8, 16)) = comp
                       /\ \A e \in 2..Len(lfh.extra_fields) :
                             lfh.extra_fields[e].tag # Zip64Tag
                       /\ lfh.version_needed >= 45
                  ELSE /\ lfh.compressed_size = comp
                       /\ lfh.uncompressed_size = unc
                       /\ ~HasExtra(lfh, Zip64Tag)

\* A finished rebuild of an entry whose uncompressed size is exactly
\* 0xFFFFFFFF and whose compressed size is small.
C8_Witness ==
    /\ Done
    /\ \E k \in 1..Len(Retained) :
          /\ TrueUncompressedSize(RetainedEntry(k)) = Sentinel32
          /\ BelowSentinel(TrueCompressedSize(RetainedEntry(k)))
          /\ RebuiltLfhs[k].value.extra_fields[1].tag = Zip64Tag

\* The extras of a header that have the given tag.
ExtrasWithTag(header, tag) == SelectSeq(header.extra_fields, LAMBDA ef : ef.tag = tag)

\* <<v>> if v is 0xFFFFFFFF or more, else nothing.
IfSaturated(v) == IF BelowSentinel(v) THEN <<>> ELSE <<v>>

\* The 32-bit field holds v, or 0xFFFFFFFF if v is that or more.
HoldsOrSaturates(field, v) == field = (IF BelowSentinel(v) THEN v ELSE Sentinel32)

\* C9: in the rebuilt CDH of a retained entry each of uncompressed size,
\* compressed size and local-header offset is 0xFFFFFFFF exactly when its
\* true value is 0xFFFFFFFF or more, and is the true value otherwise; the
\* CDH has a 0x0001 extra, its first extra and the only one, exactly when a
\* field is replaced; its data is the 64-bit true values of the replaced
\* fields in the order uncompressed, compressed, offset, 8 bytes each; the
\* ZIP64-extra rule of the parser reads these true values back from it.
C9_CdhZip64Promotion ==
    Done =>
        /\ Len(RebuiltCdhs) = Len(Retained)
        /\ \A k \in 1..Len(Retained) :
              LET cdh == RebuiltCdhs[k].value
                  unc == TrueUncompressedSize(RetainedEntry(k))
                  comp == TrueCompressedSize(RetainedEntry(k))
                  off == LfhPosition(k)
                  values == IfSaturated(unc) \o IfSaturated(comp) \o IfSaturated(off)
                  zip64 == ExtrasWithTag(cdh, Zip64Tag)
                  Back(v, read) == read = (IF BelowSentinel(v) THEN None ELSE Some(v))
              IN  /\ HoldsOrSaturates(cdh.uncompressed_size, unc)
                  /\ HoldsOrSaturates(cdh.compressed_size, comp)
                  /\ HoldsOrSaturates(cdh.local_header_offset, off)
                  /\ Len(zip64) = (IF values = <<>> THEN 0 ELSE 1)
                  /\ values # <<>> =>
                        LET data == zip64[1].data
                            read == Zip64ExtendedInfoParse(data, cdh.uncompressed_size,
                                        cdh.compressed_size, cdh.local_header_offset)
                        IN  /\ cdh.extra_fields[1] = zip64[1]
                            /\ zip64[1].size = 8 * Len(values)
                            /\ Len(data) = 8 * Len(values)
                            /\ \A v \in 1..Len(values) :
                                  parse_u64_le(Slice(data, 8 * v - 8, 8 * v)) = values[v]
                            /\ Back(unc, read.uncompressed_size)
                            /\ Back(comp, read.compressed_size)
                            /\ Back(off, read.local_header_offset)

\* A finished rebuild whose second entry has a small uncompressed size, a
\* compressed size beyond 32 bits and an LFH beyond 0xFFFFFFFF: its 0x0001
\* extra holds two values.
C9_Witness ==
    /\ Done
    /\ Len(Retained) = 2
    /\ BelowSentinel(TrueUncompressedSize(RetainedEntry(2)))
    /\ ~BelowSentinel(TrueCompressedSize(RetainedEntry(2)))
    /\ ~BelowSentinel(LfhPosition(2))
    /\ RebuiltCdhs[2].value.extra_fields[1].tag = Zip64Tag
    /\ RebuiltCdhs[2].value.extra_fields[1].size = 16

\* The extras of a rebuilt header without the fresh 0x0001 extra at
\* position 0, if there is one.
WithoutFreshZip64(extra_fields) ==
    IF extra_fields # <<>> /\ extra_fields[1].tag = Zip64Tag
    THEN Tail(extra_fields) ELSE extra_fields

\* The extras of a source header without those of tag 0x0001 and 0x7075.
PassedThrough(extra_fields) ==
    SelectSeq(extra_fields, LAMBDA ef : ef.tag \notin {Zip64Tag, UnicodePathTag})

\* C10: the extras of the rebuilt LFH (of the rebuilt CDH) of a retained
\* entry, without the fresh 0x0001 extra at position 0, are the extras of
\* the source LFH (CDH) whose tag is neither 0x0001 nor 0x7075, with their
\* tags, sizes and data, in their order; no rebuilt header has a 0x7075 extra.
C10_ExtrasPassThrough ==
    Done =>
        /\ Len(RebuiltLfhs) = Len(Retained)
        /\ Len(RebuiltCdhs) = Len(Retained)
        /\ \A k \in 1..Len(Retained) :
              /\ WithoutFreshZip64(RebuiltLfhs[k].value.extra_fields)
                    = PassedThrough(RetainedEntry(k).lfh.extra_fields)
              /\ WithoutFreshZip64(RebuiltCdhs[k].value.extra_fields)
                    = PassedThrough(RetainedEntry(k).cdh.extra_fields)
              /\ ~HasExtra(RebuiltLfhs[k].value, UnicodePathTag)
              /\ ~HasExtra(RebuiltCdhs[k].value, UnicodePathTag)

\* A finished rebuild of an entry whose source LFH has a 0x0001 extra, a
\* 0x7075 extra and two others around them: the two others are what the
\* rebuilt LFH has.
C10_Witness ==
    /\ Done
    /\ \E k \in 1..Len(Retained) :
          /\ HasExtra(RetainedEntry(k).lfh, Zip64Tag)
          /\ HasExtra(RetainedEntry(k).lfh, UnicodePathTag)
          /\ HasExtra(RetainedEntry(k).cdh, UnicodePathTag)
          /\ Len(RetainedEntry(k).lfh.extra_fields) = 4
          /\ Len(RebuiltLfhs[k].value.extra_fields) = 2

\* A finished tail: that of a whole rebuild, or that of the totals alone.
TailWritten == pc \in {"done", "tail_done"}

\* The chunks of the finished tail.
WrittenTail == IF pc = "tail_done" THEN chunks ELSE TailChunks(Len(Retained))

\* The true values the tail describes: the number of retained entries, the
\* byte position at which the central directory begins, and its size.
TrueEntries == IF pc = "tail_done" THEN total_entries ELSE Len(Retained)

TrueCdStart ==
    IF pc = "tail_done" THEN cd_start_offset
    ELSE SumChunks(SubSeq(chunks, 1, 2 * Len(Retained)))

TrueCdSize ==
    IF pc = "tail_done"
    THEN Sub(Sub(current_offset, SumChunks(chunks)), cd_start_offset)
    ELSE RebuiltCdSize

\* A 32-bit field holds the sentinel exactly when the true value is not below
\* it, and the true value otherwise.
Saturates32(field, true) ==
    /\ (field = Sentinel32) <=> ~Less(true, Sentinel32)
    /\ Less(true, Sentinel32) => (field = true)

\* The same for a 16-bit count and 0xFFFF.
Saturates16(field, true) ==
    /\ (field = 65535) <=> (true >= 65535)
    /\ true < 65535 => field = true

\* C11: in the rebuilt tail each EOCD field (the two entry counts, the
\* central directory's size and offset) holds its sentinel (0xFFFF,
\* 0xFFFFFFFF) exactly when the true value is not below the sentinel, and
\* the true value otherwise. A ZIP64-EOCD (size_of_record 44, both counts
\* the number of retained entries, the true 64-bit size and offset) and then
\* a locator (total_disks 1, eocd_offset the position of that ZIP64-EOCD)
\* are emitted if and only if cd_start >= 0xFFFFFFFF or cd_size >=
\* 0xFFFFFFFF or total_entries >= 0xFFFF, that is exactly when some EOCD
\* field is saturated.
C11_EocdSaturation ==
    TailWritten =>
        LET tail == WrittenTail
            eocd == EndOfCentralDirectoryParse(tail[Len(tail)].bytes)
            emitted == Len(tail) = 3
            saturated ==
                \/ eocd.value.entries_on_disk = 65535
                \/ eocd.value.total_entries = 65535
                \/ eocd.value.central_directory_size = Sentinel32
                \/ eocd.value.central_directory_offset = Sentinel32
        IN  /\ Len(tail) \in {1, 3}
            /\ eocd.ok
            /\ Saturates16(eocd.value.entries_on_disk, TrueEntries)
            /\ Saturates16(eocd.value.total_entries, TrueEntries)
            /\ Saturates32(eocd.value.central_directory_size, TrueCdSize)
            /\ Saturates32(eocd.value.central_directory_offset, TrueCdStart)
            /\ emitted <=> \/ ~Less(TrueCdStart, Sentinel32)
                           \/ ~Less(TrueCdSize, Sentinel32)
                           \/ TrueEntries >= 65535
            /\ emitted <=> saturated
            /\ emitted =>
                  LET zip64 == Zip64EndOfCentralDirectoryHeaderParse(tail[1].bytes)
                      locator == Zip64EndOfCentralDirectoryLocatorParse(tail[2].bytes)
                  IN  /\ zip64.ok
                      /\ zip64.value.size_of_record = FromInt(44)
                      /\ zip64.value.total_entries_on_disk = FromInt(TrueEntries)
                      /\ zip64.value.total_entries = FromInt(TrueEntries)
                      /\ zip64.value.central_directory_size = TrueCdSize
                      /\ zip64.value.central_directory_offset = TrueCdStart
                      /\ locator.ok
                      /\ locator.value.total_disks = FromInt(1)
                      /\ locator.value.eocd_offset = Add(TrueCdStart, TrueCdSize)

\* The tail of 65535 entries whose directory begins and ends below
\* 0xFFFFFFFF: only the counts are saturated, and the ZIP64 pair is there.
C11_Witness ==
    /\ pc = "tail_done"
    /\ total_entries = 65535
    /\ Len(chunks) = 3
    /\ Less(TrueCdStart, Sentinel32)
    /\ Less(TrueCdSize, Sentinel32)
    /\ EndOfCentralDirectoryParse(chunks[3].bytes).value.total_entries = 65535

\* The local-header offset a rebuilt CDH records: its 32-bit field when that
\* is not the sentinel, else the 64-bit value its 0x0001 extra holds for it
\* (None when there is no such value).
RecordedLfhOffset(cdh) ==
    IF cdh.local_header_offset # Sentinel32 THEN Some(cdh.local_header_offset)
    ELSE LET zip64 == ExtrasWithTag(cdh, Zip64Tag)
         IN  IF zip64 = <<>> THEN None
             ELSE Zip64ExtendedInfoParse(zip64[1].data, cdh.uncompressed_size,
                      cdh.compressed_size, cdh.local_header_offset).local_header_offset

\* C12: for each retained entry, the local-header offset its rebuilt CDH
\* records (the 32-bit field when it is not the sentinel, otherwise the
\* 64-bit value in the CDH's 0x0001 extra) is the byte position in the
\* concatenated output at which the rebuilt LFH of that same entry begins,
\* for every omit list and every mix of entry sizes; it is so for each CDH as
\* soon as it is written.
C12_CdhOffsetIsLfhPosition ==
    pc \in {"cdh", "done"} =>
        /\ Done => Len(RebuiltCdhs) = Len(Retained)
        /\ \A k \in 1..Len(RebuiltCdhs) :
              /\ RebuiltCdhs[k].ok
              /\ RecordedLfhOffset(RebuiltCdhs[k].value) = Some(LfhPosition(k))
              /\ IsLfhChunk(chunks[2 * k - 1])
              /\ RebuiltLfhs[k].value.last_mod_time = RetainedEntry(k).lfh.last_mod_time
              /\ RebuiltCdhs[k].value.last_mod_time = RetainedEntry(k).cdh.last_mod_time

\* A finished rebuild whose second entry has sizes beyond 32 bits and begins
\* beyond 0xFFFFFFFF: the offset is the third value of its 0x0001 extra.
C12_Witness ==
    /\ Done
    /\ Len(Retained) = 2
    /\ ~BelowSentinel(LfhPosition(2))
    /\ RebuiltCdhs[2].value.local_header_offset = Sentinel32
    /\ RebuiltCdhs[2].value.uncompressed_size = Sentinel32
    /\ RebuiltCdhs[2].value.compressed_size = Sentinel32
    /\ RecordedLfhOffset(RebuiltCdhs[2].value) = Some(LfhPosition(2))

---------------------------------------------------------------------------
(* wasm.rs: a ZipProcessor that inspects its archive *)

\* An entry whose CDH is named "a" and whose LFH is named "b", with the
\* given flags and Unicode-path extras.
TwoNames(cdh_flags, lfh_flags, cdh_up, lfh_up) ==
    NamePart(cdh_flags, lfh_flags, <<97>>, <<98>>, cdh_up, lfh_up)

\* No Unicode-path extra, one whose CRC-32 matches, one whose does not.
CdhUnicodePaths ==
    {None, UnicodePath(<<195, 169>>, TRUE), UnicodePath(<<195, 169>>, FALSE)}

LfhUnicodePaths ==
    {None, UnicodePath(<<239, 189, 158>>, TRUE), UnicodePath(<<239, 189, 158>>, FALSE)}

\* Entries that differ in what each filename source offers.
SourceParts ==
    {TwoNames(f[1], f[2], c, l) :
        f \in {<<0, 2048>>, <<2048, 0>>}, c \in CdhUnicodePaths, l \in LfhUnicodePaths}

\* U+301C U+FF5E in UTF-8.
WaveDashThenTilde == <<227, 128, 156, 239, 189, 158>>

\* Names that differ in how they decode: the names of NameParts, U+FF5E in
\* UTF-8 without the UTF-8 flag, and a name with the UTF-8 flag that holds
\* both U+301C and U+FF5E.
DecodingParts ==
    NameParts \cup {NamePart(0, 0, <<239, 189, 158>>, <<239, 189, 158>>, None, None),
                    NamePart(2048, 2048, WaveDashThenTilde, WaveDashThenTilde, None, None)}

\* A small archive of the given name parts.
NamedZip(names) ==
    MakeZip(names, Repeat(SmallSizes, Len(names)),
            Repeat([cdh_others |-> <<>>, lfh_others |-> <<>>, file_comment |-> <<>>],
                   Len(names)), <<>>)

SourceArchives == {NamedZip(<<p>>) : p \in SourceParts}

DecodingArchives ==
    UNION {{NamedZip(names) : names \in [1..n -> DecodingParts]} : n \in 0..MaxEntries}

\* Every field selection strategy, with and without ignore_crc32_mismatch.
SourceConfigs ==
    {MakeConfig(EncodingConfig("EntryDetected", None, FALSE), s, c, TRUE,
                "DecodeToFullwidthTilde", "Preserve") :
        s \in FieldSelectionStrategies, c \in BOOLEAN}

\* The labels a caller passes: none, two known ones, an unknown one.
Labels == {None, Some("sjis"), Some("utf-8"), Some("no-such-encoding")}

\* Every encoding selection; ForceSpecified always has a label.
EncodingSelections ==
    {EncodingConfig(t, l, i) :
        t \in {"PreferOverallDetected", "EntryDetected", "ForceSpecified"},
        l \in Labels, i \in BOOLEAN}
    \ {EncodingConfig("ForceSpecified", None, i) : i \in BOOLEAN}

\* The encoding selections under the default wave-dash policies.
DecodingConfigs ==
    {MakeConfig(e, "CdhUnicodeThenLfhUnicodeThenCdh", FALSE, TRUE,
                "DecodeToFullwidthTilde", "Preserve") : e \in EncodingSelections}

\* Every wave-dash policy, under detection, a forced Shift_JIS and a
\* Shift_JIS fallback.
WaveDashConfigs ==
    {MakeConfig(e, "CdhUnicodeThenLfhUnicodeThenCdh", FALSE, TRUE, h, n) :
        e \in {EncodingConfig("EntryDetected", None, FALSE),
               EncodingConfig("ForceSpecified", Some("sjis"), TRUE),
               EncodingConfig("PreferOverallDetected", Some("sjis"), FALSE)},
        h \in {"DecodeToFullwidthTilde", "DecodeToWaveDash"},
        n \in {"Preserve", "NormalizeToFullwidthTilde", "NormalizeToWaveDash"}}

\* A ZipProcessor with its archive, before inspect(config) is called.
InspectInit ==
    /\ \/ /\ zip_file \in SourceArchives
          /\ config \in SourceConfigs
       \/ /\ zip_file \in DecodingArchives
          /\ config \in DecodingConfigs \cup WaveDashConfigs
    /\ omit_entries = <<>>
    /\ pc = "inspect"
    /\ inspected = NoArchive
    /\ index = 0
    /\ chunks = <<>>
    /\ current_offset = U(0, 0)
    /\ new_cd_entries = <<>>
    /\ cd_start_offset = U(0, 0)
    /\ previous = None
    /\ detector = None
    /\ total_entries = 0
    /\ error = None
    /\ compatibility = None
    /\ earlier = None
    /\ blob = <<>>
    /\ located = None
    /\ reader = None
    /\ parsed = None
    /\ parsed_fields = None

\* ZipProcessor::inspect
ProcessorInspect ==
    /\ pc = "inspect"
    /\ \E g \in DetectorGuesses(DetectorInputs(zip_file, config)) :
          \E r \in {Inspect(zip_file, config, g)} :
              /\ pc' = IF r.ok THEN "inspected" ELSE "inspect_failed"
              /\ inspected' = IF r.ok THEN r.value ELSE NoArchive
              /\ error' = IF r.ok THEN None ELSE Some(r.error)
              /\ detector' = Some(g)
    /\ UNCHANGED <<zip_file, config, omit_entries, index, chunks, current_offset,
                   new_cd_entries, cd_start_offset, previous, total_entries,
                   processor_vars>>

InspectNext == ProcessorInspect

InspectSpec == InspectInit /\ [][InspectNext]_vars

---------------------------------------------------------------------------
(* Claims about inspect *)

\* The acceptance predicate of a filename source: a Unicode-path extra is
\* accepted iff it is present and its CRC-32 matched or mismatches are
\* ignored; a plain filename always is.
Accepts(kind, entry, cfg) ==
    CASE kind = "CdhUnicodePathExtraField" ->
            /\ entry.cdh.unicode_path # None
            /\ (entry.cdh.unicode_path[1].crc32_matched \/ cfg.ignore_crc32_mismatch)
      [] kind = "LfhUnicodePathExtraField" ->
            /\ entry.lfh.unicode_path # None
            /\ (entry.lfh.unicode_path[1].crc32_matched \/ cfg.ignore_crc32_mismatch)
      [] OTHER -> kind \in {"CdhFilename", "LfhFilename"}

\* The bytes a filename source holds.
SourceBytes(kind, entry) ==
    CASE kind = "CdhUnicodePathExtraField" -> entry.cdh.unicode_path[1].data
      [] kind = "LfhUnicodePathExtraField" -> entry.lfh.unicode_path[1].data
      [] kind = "CdhFilename" -> entry.cdh.filename
      [] OTHER -> entry.lfh.filename

Inspected == pc = "inspected"

\* C13: for each entry, inspect selects the first source in the preference
\* list of the configured strategy whose acceptance predicate passes (a CDH
\* or LFH Unicode-path extra iff present and crc32_matched or
\* ignore_crc32_mismatch, a plain CDH or LFH filename always). Each of the
\* eight strategies selects exactly one source for every entry (never the
\* unreachable branch), and when a Unicode-path extra is selected the
\* reported utf8_flag is true whatever the header's flag bit is.
C13_FirstAcceptedSource ==
    Inspected =>
        /\ Len(inspected.entries) = Len(zip_file.entries)
        /\ \A i \in 1..Len(zip_file.entries) :
              LET field == inspected.entries[i].filename
                  entry == zip_file.entries[i]
                  fields == FieldsOf(config.field_selection_strategy)
              IN  /\ field.kind # "unreachable"
                  /\ \E p \in 1..Len(fields) :
                        /\ fields[p] = field.kind
                        /\ Accepts(fields[p], entry, config)
                        /\ \A q \in 1..(p - 1) : ~Accepts(fields[q], entry, config)
                  /\ config.needs_original_bytes =>
                        field.original_bytes = Some(SourceBytes(field.kind, entry))
                  /\ field.kind \in {"CdhUnicodePathExtraField", "LfhUnicodePathExtraField"}
                        => field.utf8_flag = TRUE

\* Under LfhUnicodeThenCdhUnicodeThenLfh the LFH's Unicode path has a CRC
\* mismatch that is not ignored, so the CDH's is selected; the CDH has no
\* UTF-8 flag, and utf8_flag is true.
C13_Witness ==
    /\ Inspected
    /\ config.field_selection_strategy = "LfhUnicodeThenCdhUnicodeThenLfh"
    /\ ~config.ignore_crc32_mismatch
    /\ Len(zip_file.entries) = 1
    /\ zip_file.entries[1].lfh.unicode_path # None
    /\ ~zip_file.entries[1].lfh.unicode_path[1].crc32_matched
    /\ ~HasBit(zip_file.entries[1].cdh.flags, Utf8Flag)
    /\ inspected.entries[1].filename.kind = "CdhUnicodePathExtraField"
    /\ inspected.entries[1].filename.utf8_flag


\* The first present of a list of optional encodings, None if there is none.
FirstPresent(options) ==
    IF \E p \in 1..Len(options) : options[p] # None
    THEN options[CHOOSE p \in 1..Len(options) :
                    /\ options[p] # None
                    /\ \A q \in 1..(p - 1) : options[q] = None]
    ELSE None

\* The encoding the rule of C14 gives for entry i, read from what inspect
\* reports: the selected source, the per-entry and overall detections.
RuleEncoding(i) ==
    LET field == inspected.entries[i].filename
        enc == config.encoding
        fallback == IF enc.label = None THEN None ELSE ForLabel(enc.label[1])
    IN  IF (~enc.ignore_utf8_flag /\ field.utf8_flag)
            \/ field.kind \in {"CdhUnicodePathExtraField", "LfhUnicodePathExtraField"}
        THEN <<UTF_8>>
        ELSE CASE enc.type = "PreferOverallDetected" ->
                    FirstPresent(<<inspected.overall_encoding,
                                   field.detected_encoding, fallback>>)
               [] enc.type = "EntryDetected" ->
                    FirstPresent(<<field.detected_encoding, fallback>>)
               [] enc.type = "ForceSpecified" -> fallback

\* C14: for each entry the encoding inspect decodes with is UTF-8 if
\* (ignore_utf8_flag is false and the selected source's utf8_flag is true) or
\* the selected source is a Unicode-path extra; otherwise the first present
\* of {overall detected, per-entry detected, fallback} under
\* PreferOverallDetected, of {per-entry detected, fallback} under
\* EntryDetected, and the forced encoding under ForceSpecified. decoded is
\* the forced decoding of the source's bytes with that encoding, and is
\* absent exactly when the rule yields no encoding.
C14_EncodingChoice ==
    Inspected =>
        \A i \in 1..Len(inspected.entries) :
            LET field == inspected.entries[i].filename
                rule == RuleEncoding(i)
            IN  /\ (field.decoded = None) <=> (rule = None)
                /\ rule # None =>
                      field.decoded =
                          decode_with_encoding(
                              SourceBytes(field.kind, zip_file.entries[i]),
                              IF rule[1] = ASCII THEN UTF_8 ELSE rule[1], TRUE,
                              config.wave_dash_handling,
                              config.wave_dash_normalization)

\* Under PreferOverallDetected without a fallback nothing is detected for
\* the archive as a whole; the first entry is detected as Shift_JIS and
\* decoded with it, the second is not detected and has no decoded name.
C14_Witness ==
    /\ Inspected
    /\ config.encoding.type = "PreferOverallDetected"
    /\ config.encoding.label = None
    /\ Len(inspected.entries) = 2
    /\ inspected.overall_encoding = None
    /\ inspected.entries[1].filename.detected_encoding = Some(SHIFT_JIS)
    /\ inspected.entries[1].filename.decoded # None
    /\ inspected.entries[1].filename.decoded[1].encoding_used = SHIFT_JIS
    /\ inspected.entries[2].filename.detected_encoding = None
    /\ inspected.entries[2].filename.decoded = None


\* s with every from replaced by to.
MapChar(s, from, to) == [k \in 1..Len(s) |-> IF s[k] = from THEN to ELSE s[k]]

\* The two steps of C15, in order, on a string decoded with encoding used.
TwoSteps(s, used, cfg) ==
    LET first ==
            IF used = SHIFT_JIS /\ cfg.wave_dash_handling = "DecodeToWaveDash"
            THEN MapChar(s, FullwidthTilde, WaveDash) ELSE s
    IN  CASE cfg.wave_dash_normalization = "NormalizeToFullwidthTilde" ->
                MapChar(first, WaveDash, FullwidthTilde)
          [] cfg.wave_dash_normalization = "NormalizeToWaveDash" ->
                MapChar(first, FullwidthTilde, WaveDash)
          [] cfg.wave_dash_normalization = "Preserve" -> first

\* C15: the decoder's output is transformed in two steps in this order:
\* first, only when the encoding used is Shift_JIS and wave_dash_handling is
\* DecodeToWaveDash, every U+FF5E becomes U+301C; then
\* wave_dash_normalization is applied whatever the encoding. So under
\* NormalizeToFullwidthTilde no decoded filename contains U+301C, under
\* NormalizeToWaveDash none contains U+FF5E, under Preserve with
\* DecodeToFullwidthTilde the decoder's output is unchanged, and the
\* transform applied to its own result changes nothing.
C15_WaveDashTransform ==
    Inspected =>
        \A i \in 1..Len(inspected.entries) :
            LET field == inspected.entries[i].filename
                used == field.decoded[1].encoding_used
                raw == EncodingDecode(SourceBytes(field.kind, zip_file.entries[i]),
                                      used).string
                string == field.decoded[1].string
            IN  field.decoded # None =>
                    /\ string = TwoSteps(raw, used, config)
                    /\ config.wave_dash_normalization = "NormalizeToFullwidthTilde"
                          => \A k \in 1..Len(string) : string[k] # WaveDash
                    /\ config.wave_dash_normalization = "NormalizeToWaveDash"
                          => \A k \in 1..Len(string) : string[k] # FullwidthTilde
                    /\ (config.wave_dash_normalization = "Preserve"
                            /\ config.wave_dash_handling = "DecodeToFullwidthTilde")
                          => string = raw
                    /\ TwoSteps(string, used, config) = string

\* A Shift_JIS name that decodes to U+FF5E, under DecodeToWaveDash and
\* NormalizeToFullwidthTilde: the first step gives U+301C, the second gives
\* U+FF5E back.
C15_Witness ==
    /\ Inspected
    /\ config.wave_dash_handling = "DecodeToWaveDash"
    /\ config.wave_dash_normalization = "NormalizeToFullwidthTilde"
    /\ Len(inspected.entries) >= 1
    /\ zip_file.entries[1].cdh.filename = <<129, 96>>
    /\ inspected.entries[1].filename.decoded # None
    /\ inspected.entries[1].filename.decoded[1].encoding_used = SHIFT_JIS
    /\ inspected.entries[1].filename.decoded[1].string = <<FullwidthTilde>>


\* Entry i of the InspectedArchive has a decoded name that holds character c.
DecodedHas(i, c) ==
    /\ inspected.entries[i].filename.decoded # None
    /\ \E k \in 1..Len(inspected.entries[i].filename.decoded[1].string) :
          inspected.entries[i].filename.decoded[1].string[k] = c

\* Entry i was decoded, and with Shift_JIS.
DecodedWithSjis(i) ==
    /\ inspected.entries[i].filename.decoded # None
    /\ inspected.entries[i].filename.decoded[1].encoding_used = SHIFT_JIS

\* Entry i was decoded, and with another encoding than Shift_JIS.
DecodedWithOther(i) ==
    /\ inspected.entries[i].filename.decoded # None
    /\ inspected.entries[i].filename.decoded[1].encoding_used # SHIFT_JIS

C16_FlagsAsComputed ==
    Inspected =>
        /\ inspected.contains_sjis_wave_dash <=>
              \E i \in 1..Len(inspected.entries) :
                  DecodedWithSjis(i)
                      /\ (DecodedHas(i, WaveDash) \/ DecodedHas(i, FullwidthTilde))
        /\ inspected.contains_other_wave_dash <=>
              \E i \in 1..Len(inspected.entries) :
                  DecodedWithOther(i) /\ DecodedHas(i, WaveDash)
        /\ inspected.contains_other_fullwidth_tilde <=>
              \E i \in 1..Len(inspected.entries) :
                  /\ DecodedWithOther(i)
                  /\ DecodedHas(i, FullwidthTilde)
                  /\ ~DecodedHas(i, WaveDash)

---------------------------------------------------------------------------
(* Claims about the errors of inspect *)

\* inspect, or the rebuild that called it, has returned.
InspectReturned == pc \notin {"call", "inspect"}

\* inspect, or the rebuild that called it, has returned an error.
InspectFailed == pc \in {"failed", "inspect_failed"}

\* C17: inspect, and rebuild which propagates it, fails with
\* EncodingNotFound(label) whenever the configuration carries a fallback or
\* forced encoding label that is not recognized, whatever the archive holds
\* (no entry, or only entries decoded as UTF-8 because of their flag), and
\* then returns no InspectedArchive and no chunk; when no label is
\* configured inspect never fails.
C17_EncodingNotFound ==
    InspectReturned =>
        /\ (config.encoding.label # None /\ ForLabel(config.encoding.label[1]) = None)
              => /\ InspectFailed
                 /\ error = <<[kind |-> "EncodingNotFound",
                              label |-> config.encoding.label[1]]>>
                 /\ inspected = NoArchive
                 /\ chunks = <<>>
                 /\ current_offset = U(0, 0)
        /\ config.encoding.label = None => ~InspectFailed /\ error = None

\* rebuild of an archive whose only entry has the UTF-8 flag, and would be
\* decoded as UTF-8 without a look at the fallback, fails on the fallback's
\* unknown label.
C17_Witness ==
    /\ pc = "failed"
    /\ config.encoding.type = "EntryDetected"
    /\ ~config.encoding.ignore_utf8_flag
    /\ Len(zip_file.entries) = 1
    /\ HasBit(zip_file.entries[1].cdh.flags, Utf8Flag)
    /\ HasBit(zip_file.entries[1].lfh.flags, Utf8Flag)
    /\ zip_file.entries[1].cdh.unicode_path = None
    /\ error = Some(EncodingNotFound("no-such-encoding"))
    /\ chunks = <<>>


---------------------------------------------------------------------------
(* compatibility.rs: CompatibilityLevel::analyze *)

\* Prevalence, in its derived order None < Sometimes < AlwaysForNonAscii <
\* Always.
PrevalenceRank(p) ==
    CASE p = "None" -> 0
      [] p = "Sometimes" -> 1
      [] p = "AlwaysForNonAscii" -> 2
      [] p = "Always" -> 3

\* Ord::min of Prevalence
PrevalenceMin(a, b) == IF PrevalenceRank(b) < PrevalenceRank(a) THEN b ELSE a

\* The EncodingKind of a filename: Ascii, Utf8 or Other.
EncodingKind(filename) ==
    IF Utf8Valid(filename)
    THEN IF \A k \in 1..Len(filename) : filename[k] < 128 THEN "Ascii" ELSE "Utf8"
    ELSE "Other"

\* decoded_string of a UnicodePathExtraField: present iff its bytes are
\* valid UTF-8.
UnicodePathDecodedString(up) ==
    IF Utf8Valid(up.data) THEN Some(DecodeFrom(up.data, 1, UTF_8).string) ELSE None

\* The locals of analyze before the loop.
AnalyzeStart ==
    [has_broken |-> FALSE, all_ascii |-> TRUE, all_utf8 |-> TRUE,
     with_utf8_flags |-> <<"Always", FALSE>>,
     with_unicode_path_fields |-> <<"Always", FALSE>>]

\* The prevalence an observation without the signal is joined with.
AbsentPrevalence(encoding) ==
    IF encoding = "Ascii" THEN "Always" ELSE "AlwaysForNonAscii"

\* The Unicode-path check of one header, were an undecodable extra taken as
\* an absent one.
AnalyzeUnicodePathTolerant(st, encoding, unicode_path) ==
    IF /\ IsSome(unicode_path) /\ Unwrap(unicode_path).crc32_matched
       /\ UnicodePathDecodedString(Unwrap(unicode_path)) # None
    THEN [st |-> [st EXCEPT !.with_unicode_path_fields = <<@[1], TRUE>>],
          break |-> FALSE]
    ELSE [st |-> [st EXCEPT !.with_unicode_path_fields =
                     <<PrevalenceMin(@[1], AbsentPrevalence(encoding)), @[2]>>],
          break |-> FALSE]

\* The Unicode-path check of one header, after the flag check let it pass.
AnalyzeUnicodePath(st, encoding, unicode_path) ==
    IF IsSome(unicode_path) /\ Unwrap(unicode_path).crc32_matched
    THEN IF UnicodePathDecodedString(Unwrap(unicode_path)) = None
         THEN [st |-> [st EXCEPT !.has_broken = TRUE], break |-> TRUE]
         ELSE [st |-> [st EXCEPT !.with_unicode_path_fields = <<@[1], TRUE>>],
               break |-> FALSE]
    ELSE [st |-> [st EXCEPT !.with_unicode_path_fields =
                     <<PrevalenceMin(@[1], AbsentPrevalence(encoding)), @[2]>>],
          break |-> FALSE]

\* The UTF-8 flag check of one header, after the encoding stats were updated.
AnalyzeFlag(st, encoding, flags, unicode_path) ==
    IF HasBit(flags, Utf8Flag)
    THEN IF encoding = "Other"
         THEN [st |-> [st EXCEPT !.has_broken = TRUE], break |-> TRUE]
         ELSE AnalyzeUnicodePath([st EXCEPT !.with_utf8_flags = <<@[1], TRUE>>],
                                 encoding, unicode_path)
    ELSE AnalyzeUnicodePath(
             [st EXCEPT !.with_utf8_flags =
                 <<PrevalenceMin(@[1], AbsentPrevalence(encoding)), @[2]>>],
             encoding, unicode_path)

\* The body of the inner loop for one header, were a UTF-8 name to leave
\* all_ascii alone.
AnalyzeKindUtf8AsAscii(st, encoding, flags, unicode_path) ==
    AnalyzeFlag([st EXCEPT !.all_ascii = @ /\ encoding # "Other",
                           !.all_utf8 = @ /\ encoding # "Other"],
                encoding, flags, unicode_path)

\* The body of the inner loop for one header whose filename has the given
\* EncodingKind.
AnalyzeKind(st, encoding, flags, unicode_path) ==
    AnalyzeFlag([st EXCEPT !.all_ascii = @ /\ encoding = "Ascii",
                           !.all_utf8 = @ /\ encoding # "Other"],
                encoding, flags, unicode_path)

\* The body of the inner loop for one header.
AnalyzeHeader(st, header) ==
    AnalyzeKind(st, EncodingKind(header.filename), header.flags, header.unicode_path)

\* The inner loop after the CDH: the LFH, unless the CDH broke out.
AnalyzeLfh(after_cdh, lfh) ==
    IF after_cdh.break THEN after_cdh.st ELSE AnalyzeHeader(after_cdh.st, lfh).st

\* The inner loop for one entry: the CDH, then the LFH.
AnalyzeEntry(st, entry) == AnalyzeLfh(AnalyzeHeader(st, entry.cdh), entry.lfh)

\* The outer loop over the first n entries.
RECURSIVE AnalyzeEntries(_, _)
AnalyzeEntries(entries, n) ==
    IF n = 0 THEN AnalyzeStart
    ELSE AnalyzeEntry(AnalyzeEntries(entries, n - 1), entries[n])

\* A prevalence pair finalized: None unless the signal was found.
FinalPrevalence(pair) == IF pair[2] THEN pair[1] ELSE "None"

\* The level analyze returns for the locals after the loop.
LevelOf(st) ==
    IF st.has_broken THEN [type |-> "Broken"]
    ELSE IF st.all_ascii
    THEN [type |-> "AsciiOnly",
          with_utf8_flags |-> FinalPrevalence(st.with_utf8_flags),
          with_unicode_path_fields |-> FinalPrevalence(st.with_unicode_path_fields)]
    ELSE IF st.all_utf8
    THEN [type |-> "Utf8Only",
          with_utf8_flags |-> FinalPrevalence(st.with_utf8_flags),
          with_unicode_path_fields |-> FinalPrevalence(st.with_unicode_path_fields)]
    ELSE [type |-> "Other",
          with_unicode_path_fields |-> FinalPrevalence(st.with_unicode_path_fields)]

\* CompatibilityLevel::analyze
analyze(zip) == LevelOf(AnalyzeEntries(zip.entries, Len(zip.entries)))


---------------------------------------------------------------------------
(* wasm.rs: a ZipProcessor made from an archive, and one made from the same  *)
(* archive with one more entry                                                *)

\* Entries that differ in what analyze looks at: ASCII, UTF-8 and Shift_JIS
\* names with and without the UTF-8 flag; a name that is not UTF-8 under the
\* flag, in the CDH only and in the LFH only; a UTF-8 CDH name with another
\* LFH name; Unicode-path extras that are valid, undecodable with a matching
\* CRC-32 (in the CDH, in the LFH), and undecodable with a mismatch.
CompatParts ==
    {PlainName,
     NamePart(2048, 2048, <<97>>, <<97>>, None, None),
     NamePart(0, 0, <<195, 169>>, <<195, 169>>, None, None),
     NamePart(2048, 2048, <<195, 169>>, <<195, 169>>, None, None),
     NamePart(0, 0, <<129, 96>>, <<129, 96>>, None, None),
     NamePart(2048, 0, <<128>>, <<97>>, None, None),
     NamePart(0, 2048, <<97>>, <<128>>, None, None),
     NamePart(0, 0, <<195, 169>>, <<129, 96>>, None, None),
     NamePart(0, 0, <<97>>, <<97>>, UnicodePath(<<195, 169>>, TRUE),
              UnicodePath(<<195, 169>>, TRUE)),
     NamePart(0, 0, <<97>>, <<97>>, UnicodePath(<<255>>, TRUE), None),
     NamePart(0, 0, <<97>>, <<97>>, None, UnicodePath(<<255>>, TRUE)),
     NamePart(0, 0, <<97>>, <<97>>, UnicodePath(<<255>>, FALSE), None)}

CompatArchives ==
    UNION {{NamedZip(names) : names \in [1..n -> CompatParts]} : n \in 0..MaxEntries}

\* zip with one more entry, made of part.
WithEntry(zip, part) ==
    [zip EXCEPT !.entries =
        Append(@, MakeEntry(part, SmallSizes,
                            [cdh_others |-> <<>>, lfh_others |-> <<>>,
                             file_comment |-> <<>>],
                            Len(zip.entries) + 1))]

\* A parsed archive, before its ZipProcessor is made.
CompatInit ==
    /\ zip_file \in CompatArchives
    /\ config = TestConfig
    /\ omit_entries = <<>>
    /\ pc = "parse"
    /\ inspected = NoArchive
    /\ index = 0
    /\ chunks = <<>>
    /\ current_offset = U(0, 0)
    /\ new_cd_entries = <<>>
    /\ cd_start_offset = U(0, 0)
    /\ previous = None
    /\ detector = None
    /\ total_entries = 0
    /\ error = None
    /\ compatibility = None
    /\ earlier = None
    /\ blob = <<>>
    /\ located = None
    /\ reader = None
    /\ parsed = None
    /\ parsed_fields = None

\* ZipProcessor::parse, from the parsed archive on.
ProcessorParse ==
    /\ pc = "parse"
    /\ compatibility' = Some(analyze(zip_file))
    /\ pc' = "parsed"
    /\ UNCHANGED <<zip_file, config, omit_entries, inspected, index, chunks,
                   current_offset, new_cd_entries, cd_start_offset, previous,
                   detector, total_entries, error, earlier, blob, located,
                   reader, parsed, parsed_fields>>

\* ZipProcessor::parse of the same archive with one more entry appended.
ParseAppended ==
    /\ pc = "parsed"
    /\ earlier = None
    /\ \E part \in CompatParts :
          \E zip \in {WithEntry(zip_file, part)} :
              /\ zip_file' = zip
              /\ compatibility' = Some(analyze(zip))
    /\ earlier' = Some([zip_file |-> zip_file, compatibility |-> Unwrap(compatibility)])
    /\ UNCHANGED <<config, omit_entries, pc, inspected, index, chunks,
                   current_offset, new_cd_entries, cd_start_offset, previous,
                   detector, total_entries, error, blob, located, reader,
                   parsed, parsed_fields>>

CompatNext ==
    \/ ProcessorParse
    \/ ParseAppended

CompatSpec == CompatInit /\ [][CompatNext]_vars


---------------------------------------------------------------------------
(* Claims about CompatibilityLevel::analyze *)

Analyzed == pc = "parsed"

\* A header with the UTF-8 flag set whose filename is not valid UTF-8.
FlaggedNotUtf8(header) ==
    /\ (header.flags \div 2048) % 2 = 1
    /\ DecodeFrom(header.filename, 1, UTF_8).has_errors

\* A header with a Unicode-path extra whose bytes do not decode as UTF-8.
UndecodableUnicodePath(header) ==
    /\ header.unicode_path # None
    /\ DecodeFrom(header.unicode_path[1].data, 1, UTF_8).has_errors

AppendedEntry == zip_file.entries[Len(zip_file.entries)]

\* C19: appending an entry whose CDH and LFH filenames are valid UTF-8 to an
\* archive that analyze classifies as Utf8Only never makes analyze return
\* Other; analyze returns Other only if some CDH or LFH filename is not valid
\* UTF-8, and AsciiOnly only if every CDH and LFH filename is pure ASCII.
C19_Monotone ==
    Analyzed =>
        /\ (/\ earlier # None
            /\ earlier[1].compatibility.type = "Utf8Only"
            /\ ~DecodeFrom(AppendedEntry.cdh.filename, 1, UTF_8).has_errors
            /\ ~DecodeFrom(AppendedEntry.lfh.filename, 1, UTF_8).has_errors)
              => compatibility[1].type # "Other"
        /\ compatibility[1].type = "Other" =>
              \E i \in 1..Len(zip_file.entries) :
                  \E header \in {zip_file.entries[i].cdh, zip_file.entries[i].lfh} :
                      DecodeFrom(header.filename, 1, UTF_8).has_errors
        /\ compatibility[1].type = "AsciiOnly" =>
              \A i \in 1..Len(zip_file.entries) :
                  \A header \in {zip_file.entries[i].cdh, zip_file.entries[i].lfh} :
                      \A k \in 1..Len(header.filename) : header.filename[k] < 128

\* A Utf8Only archive of two entries, one ASCII and one UTF-8, gets a third
\* entry with a UTF-8 name and stays Utf8Only.
C19_Witness ==
    /\ Analyzed
    /\ earlier # None
    /\ earlier[1].compatibility.type = "Utf8Only"
    /\ Len(zip_file.entries) = 3
    /\ zip_file.entries[1].cdh.filename = <<97>>
    /\ AppendedEntry.cdh.filename = <<195, 169>>
    /\ AppendedEntry.lfh.filename = <<195, 169>>
    /\ compatibility[1].type = "Utf8Only"


---------------------------------------------------------------------------
(* parse.rs: ZipFile::parse, up to the EOCD *)

\* The most bytes parse reads from the end of the file: 22 + 65535.
EocdSearchSize == 65557

\* The signature 0x06054b50 is at eocd_data[i..i + 4] (0-based i).
SignatureAt(eocd_data, i) == parse_u32_le(Slice(eocd_data, i, i + 4)) = EocdSignature

\* The positions the backward scan visits and finds the signature at.
ScanHits(eocd_data) ==
    {i \in 0..(Len(eocd_data) - 22) : SignatureAt(eocd_data, i)}

\* The scan's result in the buffer read at search_offset: the EOCD parsed at
\* the last hit, with its offset in the file.
ParseEocdAt(eocd_data, search_offset, hits) ==
    IF hits = {} THEN Err("EOCD signature not found")
    ELSE LET i == CHOOSE h \in hits : \A other \in hits : other <= h
             eocd == EndOfCentralDirectoryParse(
                         Slice(eocd_data, i, Len(eocd_data)))
         IN  IF eocd.ok
             THEN Ok([eocd_offset |-> search_offset + i, eocd |-> eocd.value])
             ELSE Err(eocd.error)

\* The beginning of ZipFile::parse: read the final search_size bytes, scan
\* them backwards for the signature, parse the EOCD there.
LocateEocd(file) ==
    LET file_size == Len(file)
        search_size == IF EocdSearchSize < file_size THEN EocdSearchSize ELSE file_size
        search_offset == file_size - search_size
    IN  ParseEocdAt(Slice(file, search_offset, file_size), search_offset,
                    ScanHits(Slice(file, search_offset, file_size)))


\* k zero bytes.
Zeros(k) == [i \in 1..k |-> 0]

\* What precedes the EOCD of an archive without entries: nothing.
EmptyBody == [bytes |-> <<>>, total_entries |-> 0,
              central_directory_size |-> U(0, 0),
              central_directory_offset |-> U(0, 0)]

\* What precedes the EOCD of an archive with one stored entry "a" of two
\* bytes: the LFH, the payload, the CDH.
OneEntryBody ==
    [bytes |->
        LocalFileHeaderToBytes(
            [signature |-> LfhSignature, version_needed |-> 20, flags |-> 0,
             compression_method |-> 0, last_mod_time |-> 0, last_mod_date |-> 0,
             crc32 |-> U(0, 0), compressed_size |-> U(0, 2),
             uncompressed_size |-> U(0, 2), filename_length |-> 1,
             extra_field_length |-> 0, filename |-> <<97>>, extra_fields |-> <<>>])
        \o <<120, 121>>
        \o CentralDirectoryHeaderToBytes(
            [signature |-> CdhSignature, version_made_by |-> 20,
             version_needed |-> 20, flags |-> 0, compression_method |-> 0,
             last_mod_time |-> 0, last_mod_date |-> 0, crc32 |-> U(0, 0),
             compressed_size |-> U(0, 2), uncompressed_size |-> U(0, 2),
             filename_length |-> 1, extra_field_length |-> 0,
             file_comment_length |-> 0, disk_number_start |-> 0,
             internal_file_attributes |-> 0, external_file_attributes |-> U(0, 0),
             local_header_offset |-> U(0, 0), filename |-> <<97>>,
             extra_fields |-> <<>>, file_comment |-> <<>>]),
     total_entries |-> 1,
     central_directory_size |-> U(0, 47),
     central_directory_offset |-> U(0, 33)]

\* An archive without entries that begins with 65600 bytes that belong to no
\* record: its EOCD is beyond the first 65557 bytes.
PrefixedBody == [bytes |-> Zeros(65600), total_entries |-> 0,
                 central_directory_size |-> U(0, 0),
                 central_directory_offset |-> U(1, 64)]

Bodies == {EmptyBody, OneEntryBody}

\* The file of an archive: what precedes the EOCD, the EOCD, the comment.
ArchiveFile(body, comment) ==
    body.bytes
        \o EocdToBytes([signature |-> EocdSignature, disk_number |-> 0,
                        disk_number_with_eocd |-> 0,
                        entries_on_disk |-> body.total_entries,
                        total_entries |-> body.total_entries,
                        central_directory_size |-> body.central_directory_size,
                        central_directory_offset |-> body.central_directory_offset,
                        comment_length |-> Len(comment), comment |-> comment])

\* What follows the bytes 50 4B 05 06 in an archive comment that holds them:
\* up to 20 zero bytes, or 18 bytes that read as an EOCD with a comment of
\* one byte.
AfterSignature == {Zeros(k) : k \in 0..20} \cup {Zeros(16) \o <<1, 0>>}

\* Archive comments: none, one byte, and comments that hold the signature.
Comments ==
    {<<>>, <<99>>}
        \cup {pad \o Le32(EocdSignature) \o after :
                 pad \in {<<>>, <<99>>}, after \in AfterSignature}

\* Valid archives.
ValidArchiveFiles ==
    {ArchiveFile(body, comment) : body \in Bodies, comment \in Comments}
        \cup {ArchiveFile(PrefixedBody, <<>>)}

\* Files that are no archives: the first k < 22 bytes of an EOCD; zero bytes
\* only; an EOCD whose comment is cut short; an EOCD followed by 65536 bytes.
OtherFiles ==
    {SubSeq(ArchiveFile(EmptyBody, <<>>), 1, k) : k \in 0..21}
        \cup {Zeros(k) : k \in 22..25}
        \cup {SubSeq(ArchiveFile(EmptyBody, <<99, 99, 99>>), 1, 22 + k) : k \in 0..2}
        \cup {ArchiveFile(EmptyBody, <<>>) \o Zeros(65536)}

\* A file, before ZipFile::parse reads it.
FileInit ==
    /\ blob \in ValidArchiveFiles \cup OtherFiles
    /\ zip_file = NamedZip(<<>>)
    /\ config = TestConfig
    /\ omit_entries = <<>>
    /\ pc = "locate"
    /\ inspected = NoArchive
    /\ index = 0
    /\ chunks = <<>>
    /\ current_offset = U(0, 0)
    /\ new_cd_entries = <<>>
    /\ cd_start_offset = U(0, 0)
    /\ previous = None
    /\ detector = None
    /\ total_entries = 0
    /\ error = None
    /\ compatibility = None
    /\ earlier = None
    /\ located = None
    /\ reader = None
    /\ parsed = None
    /\ parsed_fields = None

\* ZipFile::parse, up to the EOCD.
ParseLocate ==
    /\ pc = "locate"
    /\ \E r \in {LocateEocd(blob)} :
          /\ located' = Some(r)
          /\ error' = IF r.ok THEN None ELSE Some(r.error)
          /\ pc' = IF r.ok THEN "located" ELSE "locate_failed"
    /\ UNCHANGED <<zip_file, config, omit_entries, inspected, index, chunks,
                   current_offset, new_cd_entries, cd_start_offset, previous,
                   detector, total_entries, compatibility, earlier, blob,
                   reader, parsed, parsed_fields>>

FileNext == ParseLocate

FileSpec == FileInit /\ [][FileNext]_vars


---------------------------------------------------------------------------
(* Claims about the EOCD search *)

Looked == pc \in {"located", "locate_failed"}

\* The first position of the final min(65557, file_size) bytes.
WindowStart(file) == IF Len(file) > 65557 THEN Len(file) - 65557 ELSE 0

\* The bytes 50 4B 05 06 are at offset p of the file.
SignatureBytesAt(file, p) ==
    /\ p + 4 <= Len(file)
    /\ <<file[p + 1], file[p + 2], file[p + 3], file[p + 4]>> = <<80, 75, 5, 6>>

\* An occurrence of the signature at offset p whose declared comment_length
\* is what remains of the file after its 22 bytes.
MatchingOccurrence(file, p) ==
    /\ SignatureBytesAt(file, p)
    /\ p + 22 <= Len(file)
    /\ p + 22 + (file[p + 21] + 256 * file[p + 22]) = Len(file)

\* C20: for every valid archive the EOCD that ZipFile::parse uses is the
\* last occurrence of the signature 0x06054b50 in the final
\* min(65557, file_size) bytes whose offset + 22 + comment_length is at most
\* file_size and whose comment_length matches the bytes remaining to the end
\* of the file; an occurrence of the signature inside the archive comment is
\* not chosen. parse fails with the EOCD-not-found error when the final
\* bytes hold no occurrence, also for a file shorter than 22 bytes.
C20_EocdLocation ==
    Looked =>
        /\ \A body \in Bodies \cup {PrefixedBody}, comment \in Comments :
              blob = ArchiveFile(body, comment) =>
                  /\ located[1].ok
                  /\ MatchingOccurrence(blob, located[1].value.eocd_offset)
                  /\ \A p \in WindowStart(blob)..Len(blob) :
                        MatchingOccurrence(blob, p) => p <= located[1].value.eocd_offset
                  /\ located[1].value.eocd_offset = Len(body.bytes)
                  /\ located[1].value.eocd.comment = comment
        /\ (\A p \in WindowStart(blob)..Len(blob) : ~SignatureBytesAt(blob, p))
              => located[1] = [ok |-> FALSE, value |-> <<>>,
                               error |-> "EOCD signature not found"]

\* What ZipFile::parse does: it takes the last occurrence of the signature
\* that has at least 22 bytes from its start to the end of the file,
\* whatever follows it; without one it fails with EOCD-not-found; with one
\* it fails if the comment_length read there exceeds the bytes that remain,
\* and else uses the record there, with the comment of that length.
C20_LastSignature ==
    Looked =>
        LET hits == {p \in WindowStart(blob)..(Len(blob) - 22) :
                        SignatureBytesAt(blob, p)}
        IN  IF hits = {}
            THEN ~located[1].ok /\ located[1].error = "EOCD signature not found"
            ELSE \E p \in hits :
                    /\ \A q \in hits : q <= p
                    /\ located[1].ok <=>
                          p + 22 + (blob[p + 21] + 256 * blob[p + 22]) <= Len(blob)
                    /\ located[1].ok =>
                          /\ located[1].value.eocd_offset = p
                          /\ Len(located[1].value.eocd.comment)
                                = blob[p + 21] + 256 * blob[p + 22]

\* The archive without entries whose comment is 50 4B 05 06, sixteen zero
\* bytes, 01 00: parse reads the comment as an EOCD with a comment of one
\* byte, and fails.
C20_Witness ==
    /\ pc = "locate_failed"
    /\ blob = ArchiveFile(EmptyBody, <<80, 75, 5, 6>> \o Zeros(16) \o <<1, 0>>)
    /\ located = Some(Err("InvalidData"))


---------------------------------------------------------------------------
(* parse.rs: ZipFile::parse, the whole of it *)

\* The most bytes the fallback search reads before the EOCD: 1 MiB.
Zip64FallbackSearchSize == 1048576

DataDescriptorSignature == U(2055, 19280)

\* A u64 that is an offset or a size within the file, as a number.
ToInt(v) == v.hi * Radix + v.lo

\* The range read(offset, size) asks for ends within a file of file_size bytes.
WithinFile(file_size, offset, size) == ~Less(FromInt(file_size), Add(offset, size))

\* ZipReader::read(offset, size). FileZipReader (main.rs, kind "exact") seeks
\* and fills a buffer of size bytes with read_exact, which fails when the file
\* ends before; MockReader (parse.rs) and JsBlobReader (wasm.rs), kind
\* "short", return the bytes the file has in the range. A read of no bytes
\* succeeds anywhere.
ReaderRead(file, kind, offset, size) ==
    IF WithinFile(Len(file), offset, size)
    THEN Ok(Slice(file, ToInt(offset), ToInt(Add(offset, size))))
    ELSE IF kind = "exact"
    THEN IF size = U(0, 0) THEN Ok(<<>>) ELSE Err("UnexpectedEof")
    ELSE IF ~Less(offset, FromInt(Len(file))) THEN Ok(<<>>)
    ELSE Ok(Slice(file, ToInt(offset), Len(file)))

\* A read(offset, size) parse has issued.
Request(offset, size) == [offset |-> offset, size |-> size]

\* What parse returns, with the reads it issued on the way.
Returned(result, reads) == [result |-> result, reads |-> reads]

\* DataDescriptor::is_next_section_signature
is_next_section_signature(signature) ==
    signature \in {LfhSignature, CdhSignature, EocdSignature, Zip64EocdSignature}

\* parse_standard with the two positions tested in the other order.
DataDescriptorParseStandardBareFirst(data) ==
    IF Len(data) < 20 THEN Err("Data Descriptor data too short")
    ELSE IF is_next_section_signature(parse_u32_le(Slice(data, 12, 16)))
    THEN Ok([type |-> "Standard", signature |-> None,
             crc32 |-> parse_u32_le(Slice(data, 0, 4)),
             compressed_size |-> parse_u32_le(Slice(data, 4, 8)),
             uncompressed_size |-> parse_u32_le(Slice(data, 8, 12))])
    ELSE IF is_next_section_signature(parse_u32_le(Slice(data, 16, 20)))
    THEN IF parse_u32_le(Slice(data, 0, 4)) # DataDescriptorSignature
         THEN Err("Invalid Data Descriptor signature")
         ELSE Ok([type |-> "Standard",
                  signature |-> Some(parse_u32_le(Slice(data, 0, 4))),
                  crc32 |-> parse_u32_le(Slice(data, 4, 8)),
                  compressed_size |-> parse_u32_le(Slice(data, 8, 12)),
                  uncompressed_size |-> parse_u32_le(Slice(data, 12, 16))])
    ELSE Err("Unknown data after Data Descriptor")

\* DataDescriptor::parse_standard
DataDescriptorParseStandard(data) ==
    IF Len(data) < 20 THEN Err("Data Descriptor data too short")
    ELSE IF is_next_section_signature(parse_u32_le(Slice(data, 16, 20)))
    THEN IF parse_u32_le(Slice(data, 0, 4)) # DataDescriptorSignature
         THEN Err("Invalid Data Descriptor signature")
         ELSE Ok([type |-> "Standard",
                  signature |-> Some(parse_u32_le(Slice(data, 0, 4))),
                  crc32 |-> parse_u32_le(Slice(data, 4, 8)),
                  compressed_size |-> parse_u32_le(Slice(data, 8, 12)),
                  uncompressed_size |-> parse_u32_le(Slice(data, 12, 16))])
    ELSE IF is_next_section_signature(parse_u32_le(Slice(data, 12, 16)))
    THEN Ok([type |-> "Standard", signature |-> None,
             crc32 |-> parse_u32_le(Slice(data, 0, 4)),
             compressed_size |-> parse_u32_le(Slice(data, 4, 8)),
             uncompressed_size |-> parse_u32_le(Slice(data, 8, 12))])
    ELSE Err("Unknown data after Data Descriptor")

\* DataDescriptor::parse_zip64
DataDescriptorParseZip64(data) ==
    IF Len(data) < 28 THEN Err("Data Descriptor data too short")
    ELSE IF is_next_section_signature(parse_u32_le(Slice(data, 24, 28)))
    THEN IF parse_u32_le(Slice(data, 0, 4)) # DataDescriptorSignature
         THEN Err("Invalid Data Descriptor signature")
         ELSE Ok([type |-> "Zip64",
                  signature |-> Some(parse_u32_le(Slice(data, 0, 4))),
                  crc32 |-> parse_u32_le(Slice(data, 4, 8)),
                  compressed_size |-> parse_u64_le(Slice(data, 8, 16)),
                  uncompressed_size |-> parse_u64_le(Slice(data, 16, 24))])
    ELSE IF is_next_section_signature(parse_u32_le(Slice(data, 20, 24)))
    THEN Ok([type |-> "Zip64", signature |-> None,
             crc32 |-> parse_u32_le(Slice(data, 0, 4)),
             compressed_size |-> parse_u64_le(Slice(data, 4, 12)),
             uncompressed_size |-> parse_u64_le(Slice(data, 12, 20))])
    ELSE Err("Unknown data after Data Descriptor")

\* The LFH or the CDH of the entry carries an extra with tag 0x0001.
HasZip64Extension(lfh, cdh) ==
    \/ \E i \in DOMAIN lfh.extra_fields : lfh.extra_fields[i].tag = Zip64Tag
    \/ \E i \in DOMAIN cdh.extra_fields : cdh.extra_fields[i].tag = Zip64Tag

\* Where parse looks for the data descriptor of an entry, and how many bytes
\* it reads there.
DescriptorRequest(lfh, cdh) ==
    Request(Add(lfh.file_data_offset, lfh.file_data_size),
            IF HasZip64Extension(lfh, cdh) THEN U(0, 28) ELSE U(0, 20))

\* The descriptor of an entry whose LFH has bit 3 set, from the bytes read
\* for it: the result of parse_zip64 or parse_standard, kept as it is.
ParseDescriptor(lfh, cdh, descriptor_data) ==
    IF HasZip64Extension(lfh, cdh)
    THEN Some(DataDescriptorParseZip64(descriptor_data))
    ELSE Some(DataDescriptorParseStandard(descriptor_data))

\* The entry parse pushes.
ZipFileEntry(cdh, lfh, descriptor) ==
    [cdh |-> cdh, lfh |-> lfh, descriptor |-> descriptor]

RECURSIVE ParseEntries(_, _, _, _, _, _, _)

\* One pass of the loop, from the full LFH bytes on.
EntryFromLfh(file, kind, central_dir_data, next_offset, remaining, entries, reads, cdh, lfh) ==
    IF ~lfh.ok THEN Returned(lfh, reads)
    ELSE IF ~has_data_descriptor(lfh.value.flags)
    THEN ParseEntries(file, kind, central_dir_data, next_offset, remaining,
                      Append(entries, ZipFileEntry(cdh, lfh.value, None)), reads)
    ELSE LET request == DescriptorRequest(lfh.value, cdh)
             descriptor_data == ReaderRead(file, kind, request.offset, request.size)
         IN  IF ~descriptor_data.ok
             THEN Returned(descriptor_data, Append(reads, request))
             ELSE ParseEntries(file, kind, central_dir_data, next_offset, remaining,
                               Append(entries,
                                      ZipFileEntry(cdh, lfh.value,
                                                   ParseDescriptor(lfh.value, cdh,
                                                                   descriptor_data.value))),
                               Append(reads, request))

\* One pass of the loop, from the first 30 bytes of the LFH on.
EntryFromLfhHead(file, kind, central_dir_data, next_offset, remaining, entries, reads, cdh, lfh_data) ==
    IF ~lfh_data.ok THEN Returned(lfh_data, reads)
    ELSE IF Len(lfh_data.value) < 30 THEN Returned(Err("LFH data too short"), reads)
    ELSE LET request ==
                Request(cdh.local_header_offset,
                        FromInt(30 + parse_u16_le(Slice(lfh_data.value, 26, 28))
                                   + parse_u16_le(Slice(lfh_data.value, 28, 30))))
             lfh_full_data == ReaderRead(file, kind, request.offset, request.size)
         IN  IF ~lfh_full_data.ok THEN Returned(lfh_full_data, Append(reads, request))
             ELSE EntryFromLfh(file, kind, central_dir_data, next_offset, remaining,
                               entries, Append(reads, request), cdh,
                               LocalFileHeaderParse(lfh_full_data.value,
                                                    cdh.local_header_offset))

\* EntryFromCdh without `cdh_offset += cdh.len()`.
EntryFromCdhNotAdvancing(file, kind, central_dir_data, cdh_offset, remaining, entries, reads, cdh) ==
    IF ~cdh.ok THEN Returned(cdh, reads)
    ELSE EntryFromLfhHead(file, kind, central_dir_data, cdh_offset,
                          remaining, entries,
                          Append(reads, Request(cdh.value.local_header_offset, U(0, 30))),
                          cdh.value,
                          ReaderRead(file, kind, cdh.value.local_header_offset, U(0, 30)))

\* One pass of the loop, from the parsed CDH on.
EntryFromCdh(file, kind, central_dir_data, cdh_offset, remaining, entries, reads, cdh) ==
    IF ~cdh.ok THEN Returned(cdh, reads)
    ELSE EntryFromLfhHead(file, kind, central_dir_data, cdh_offset + CdhLen(cdh.value),
                          remaining, entries,
                          Append(reads, Request(cdh.value.local_header_offset, U(0, 30))),
                          cdh.value,
                          ReaderRead(file, kind, cdh.value.local_header_offset, U(0, 30)))

\* The loop over the central directory: `remaining` passes are left, the
\* next CDH is at cdh_offset of central_dir_data.
ParseEntries(file, kind, central_dir_data, cdh_offset, remaining, entries, reads) ==
    IF remaining = U(0, 0) THEN Returned(Ok(entries), reads)
    ELSE IF cdh_offset + 46 > Len(central_dir_data)
    THEN Returned(Err("CDH data too short"), reads)
    ELSE EntryFromCdh(file, kind, central_dir_data, cdh_offset, Sub(remaining, U(0, 1)),
                      entries, reads,
                      CentralDirectoryHeaderParse(
                          Slice(central_dir_data, cdh_offset, Len(central_dir_data))))

\* The end of parse: the central directory is read at the effective offset
\* and size, the loop runs effective_total_entries times, the ZipFile holds
\* the entries, the EOCD and the ZIP64 EOCD the struct declares.
ReadDirectory(file, kind, eocd, eocd_zip64, offset, size, effective_total_entries, reads) ==
    LET central_dir_data == ReaderRead(file, kind, offset, size)
        looped == ParseEntries(file, kind, central_dir_data.value, 0,
                               effective_total_entries,
                               <<>>, Append(reads, Request(offset, size)))
    IN  IF ~central_dir_data.ok
        THEN Returned(central_dir_data, Append(reads, Request(offset, size)))
        ELSE IF ~looped.result.ok THEN looped
        ELSE Returned(Ok([entries |-> looped.result.value, eocd |-> eocd,
                          eocd_zip64 |-> eocd_zip64]),
                      looped.reads)

\* The effective central directory parameters are those of the ZIP64 EOCD.
ReadDirectoryZip64(file, kind, eocd, header, extensible_data, locator, reads) ==
    ReadDirectory(file, kind, eocd,
                  Some(<<[header |-> header, extensible_data |-> extensible_data],
                         locator>>),
                  header.central_directory_offset, header.central_directory_size,
                  header.total_entries, reads)

\* The extensible data sector of the ZIP64 EOCD. size_of_record - 44 is a u64
\* subtraction: below 44 it panics where overflow checks are on, and wraps
\* where they are off (a size whose hi is -1 stands for the wrapped value,
\* 2^64 - 44 + size_of_record); the wrapped read panics in FileZipReader
\* (the buffer exceeds the capacity a Vec may have) and is an empty range
\* for JsBlobReader, whose offset + size wraps as well.
ReadExtensibleData(file, kind, overflow_checks, eocd, header, locator, at, reads) ==
    IF header.size_of_record = U(0, 44)
    THEN ReadDirectoryZip64(file, kind, eocd, header, <<>>, locator, reads)
    ELSE IF Less(header.size_of_record, U(0, 44))
    THEN IF overflow_checks
         THEN Returned(Err("panic: attempt to subtract with overflow"), reads)
         ELSE IF kind = "exact"
         THEN Returned(Err("panic: capacity overflow"),
                       Append(reads, Request(at, Sub(header.size_of_record, U(0, 44)))))
         ELSE ReadDirectoryZip64(file, kind, eocd, header, <<>>, locator,
                       Append(reads, Request(at, Sub(header.size_of_record, U(0, 44)))))
    ELSE LET request == Request(at, Sub(header.size_of_record, U(0, 44)))
             extensible_data == ReaderRead(file, kind, request.offset, request.size)
         IN  IF ~extensible_data.ok
             THEN Returned(extensible_data, Append(reads, request))
             ELSE ReadDirectoryZip64(file, kind, eocd, header, extensible_data.value,
                                     locator, Append(reads, request))

\* The ZIP64 EOCD header is read at zip64_eocd_offset and parsed.
ReadZip64Eocd(file, kind, overflow_checks, eocd, locator, zip64_eocd_offset, reads) ==
    LET request == Request(zip64_eocd_offset, U(0, 56))
        header_data == ReaderRead(file, kind, request.offset, request.size)
        header == Zip64EndOfCentralDirectoryHeaderParse(header_data.value)
    IN  IF ~header_data.ok THEN Returned(header_data, Append(reads, request))
        ELSE IF ~header.ok THEN Returned(header, Append(reads, request))
        ELSE ReadExtensibleData(file, kind, overflow_checks, eocd, header.value, locator,
                                Add(zip64_eocd_offset, U(0, 56)), Append(reads, request))

\* Without a locator the signature 0x06064b50 is searched backwards in the
\* bytes before the EOCD, at most 1 MiB of them.
Zip64Fallback(file, kind, overflow_checks, eocd, eocd_offset, reads) ==
    LET search_start == Max(eocd_offset - Zip64FallbackSearchSize, 0)
        request == Request(FromInt(search_start), FromInt(eocd_offset - search_start))
        zip64_search_data == ReaderRead(file, kind, request.offset, request.size)
        hits == {i \in 0..(Len(zip64_search_data.value) - 56) :
                    parse_u32_le(Slice(zip64_search_data.value, i, i + 4))
                        = Zip64EocdSignature}
    IN  IF ~zip64_search_data.ok THEN Returned(zip64_search_data, Append(reads, request))
        ELSE IF hits = {}
        THEN Returned(Err("Zip64 EOCD signature not found"), Append(reads, request))
        ELSE ReadZip64Eocd(file, kind, overflow_checks, eocd, None,
                           FromInt(search_start
                                   + (CHOOSE h \in hits : \A other \in hits : other <= h)),
                           Append(reads, request))

\* The ZIP64 EOCD of an archive whose EOCD is saturated: the locator is read
\* in the 20 bytes before the EOCD; its offset, or the fallback search,
\* gives the place of the ZIP64 EOCD.
ResolveZip64(file, kind, overflow_checks, eocd, eocd_offset, reads) ==
    IF eocd_offset < 20
    THEN Returned(Err("Not enough space before EOCD"), reads)
    ELSE LET request == Request(FromInt(eocd_offset - 20), U(0, 20))
             locator_data == ReaderRead(file, kind, request.offset, request.size)
             locator == Zip64EndOfCentralDirectoryLocatorParse(locator_data.value)
         IN  IF ~locator_data.ok THEN Returned(locator_data, Append(reads, request))
             ELSE IF parse_u32_le(Slice(locator_data.value, 0, 4)) # Zip64LocatorSignature
             THEN Zip64Fallback(file, kind, overflow_checks, eocd, eocd_offset,
                                Append(reads, request))
             ELSE IF ~locator.ok THEN Returned(locator, Append(reads, request))
             ELSE ReadZip64Eocd(file, kind, overflow_checks, eocd, Some(locator.value),
                                locator.value.eocd_offset, Append(reads, request))

\* parse, from the EOCD it located on.
ParseFromEocd(file, kind, overflow_checks, found, reads) ==
    IF ~found.ok THEN Returned(found, reads)
    ELSE IF \/ found.value.eocd.total_entries = 65535
            \/ found.value.eocd.central_directory_size = Sentinel32
            \/ found.value.eocd.central_directory_offset = Sentinel32
    THEN ResolveZip64(file, kind, overflow_checks, found.value.eocd,
                      found.value.eocd_offset, reads)
    ELSE ReadDirectory(file, kind, found.value.eocd, None,
                       found.value.eocd.central_directory_offset,
                       found.value.eocd.central_directory_size,
                       FromInt(found.value.eocd.total_entries), reads)

\* ZipFile::parse(reader, file_size), with the reads it issues.
ZipFileParse(file, kind, overflow_checks) ==
    ParseFromEocd(file, kind, overflow_checks, LocateEocd(file),
                  <<Request(FromInt(Len(file) - Min(EocdSearchSize, Len(file))),
                            FromInt(Min(EocdSearchSize, Len(file))))>>)


---------------------------------------------------------------------------
(* The files ZipFile::parse is given *)

\* A member of an archive file: what its LFH and its CDH state, the payload
\* and the bytes of the data descriptor after it. `recorded` replaces the
\* offset of the LFH in the CDH when it is present.
StoredMember(name) ==
    [name |-> name, lfh_flags |-> 0, payload |-> <<120, 121>>,
     lfh_size |-> U(0, 2), cdh_size |-> U(0, 2), descriptor |-> <<>>,
     lfh_extra |-> <<>>, cdh_extra |-> <<>>, lfh_signature |-> LfhSignature,
     cdh_signature |-> CdhSignature, recorded |-> None]

MemberLfh(m) ==
    [signature |-> m.lfh_signature, version_needed |-> 20, flags |-> m.lfh_flags,
     compression_method |-> 0, last_mod_time |-> 0, last_mod_date |-> 0,
     crc32 |-> U(0, 0), compressed_size |-> m.lfh_size,
     uncompressed_size |-> m.lfh_size, filename_length |-> Len(m.name),
     extra_field_length |-> Len(ExtraFieldsToBytes(m.lfh_extra)),
     filename |-> m.name, extra_fields |-> m.lfh_extra]

MemberCdh(m, offset) ==
    [signature |-> m.cdh_signature, version_made_by |-> 20, version_needed |-> 20,
     flags |-> m.lfh_flags, compression_method |-> 0, last_mod_time |-> 0,
     last_mod_date |-> 0, crc32 |-> U(0, 0), compressed_size |-> m.cdh_size,
     uncompressed_size |-> m.cdh_size, filename_length |-> Len(m.name),
     extra_field_length |-> Len(ExtraFieldsToBytes(m.cdh_extra)),
     file_comment_length |-> 0, disk_number_start |-> 0,
     internal_file_attributes |-> 0, external_file_attributes |-> U(0, 0),
     local_header_offset |-> IF IsSome(m.recorded) THEN Unwrap(m.recorded) ELSE offset,
     filename |-> m.name, extra_fields |-> m.cdh_extra, file_comment |-> <<>>]

\* The LFH, the payload and the descriptor of a member.
MemberLocal(m) == LocalFileHeaderToBytes(MemberLfh(m)) \o m.payload \o m.descriptor

\* Where the LFH of the i-th member is in the file.
MemberOffset(members, i) == SumSeq([j \in 1..(i - 1) |-> Len(MemberLocal(members[j]))])

\* What precedes the EOCD of an archive of these members: the members, then
\* their CDHs in the same order.
MembersBody(members) ==
    LET locals == Concat([i \in 1..Len(members) |-> MemberLocal(members[i])])
        directory ==
            Concat([i \in 1..Len(members) |->
                CentralDirectoryHeaderToBytes(
                    MemberCdh(members[i], FromInt(MemberOffset(members, i))))])
    IN  [bytes |-> locals \o directory, total_entries |-> Len(members),
         central_directory_size |-> FromInt(Len(directory)),
         central_directory_offset |-> FromInt(Len(locals))]

\* The bytes of a data descriptor of a two-byte member.
DescriptorBytes(with_signature, zip64, uncompressed_size) ==
    (IF with_signature THEN Le32(DataDescriptorSignature) ELSE <<>>)
        \o Le32(U(0, 0))
        \o (IF zip64 THEN Le64(U(0, 2)) \o Le64(uncompressed_size)
            ELSE Le32(U(0, 2)) \o Le32(uncompressed_size))

\* An extra with tag 0x0001 that holds these 8-byte values.
Zip64Extra(values) ==
    [tag |-> Zip64Tag, size |-> 8 * Len(values),
     data |-> Concat([i \in 1..Len(values) |-> Le64(values[i])])]

\* A member with a data descriptor after its payload. The LFH states the
\* compressed size lfh_size (0 when the member was written as a stream).
StreamedMember(name, lfh_size, with_signature, zip64, uncompressed_size) ==
    [StoredMember(name) EXCEPT
        !.lfh_flags = DataDescriptorFlag,
        !.lfh_size = lfh_size,
        !.descriptor = DescriptorBytes(with_signature, zip64, uncompressed_size),
        !.lfh_extra = IF zip64 THEN <<Zip64Extra(<<U(0, 2), U(0, 2)>>)>> ELSE <<>>]

\* Members with a data descriptor: written with or without the signature,
\* in the standard or the ZIP64 layout, the LFH stating the size or not, the
\* uncompressed size being 2 or 0x04034b50.
StreamedMembers ==
    {StreamedMember(<<97>>, lfh_size, with_signature, zip64, uncompressed_size) :
        lfh_size \in {U(0, 0), U(0, 2)}, with_signature \in BOOLEAN,
        zip64 \in BOOLEAN, uncompressed_size \in {U(0, 2), LfhSignature}}

\* A member whose descriptor has no signature and is followed by four bytes
\* that read as a signature, before the next section.
PaddedMember ==
    [StreamedMember(<<97>>, U(0, 2), FALSE, FALSE, U(0, 2)) EXCEPT
        !.descriptor = @ \o Le32(CdhSignature)]

\* A member whose bit 3 is clear although a descriptor follows its payload.
UnflaggedMember ==
    [StreamedMember(<<97>>, U(0, 2), TRUE, FALSE, U(0, 2)) EXCEPT !.lfh_flags = 0]

\* Members whose CDH or LFH does not parse: a wrong signature, an extra
\* cut short.
BrokenMembers ==
    {[StoredMember(<<97>>) EXCEPT !.cdh_signature = U(0, 0)],
     [StoredMember(<<97>>) EXCEPT !.lfh_signature = U(0, 0)],
     [StoredMember(<<97>>) EXCEPT !.cdh_extra = <<[tag |-> 21589, size |-> 5, data |-> <<0>>]>>],
     [StoredMember(<<97>>) EXCEPT !.lfh_extra = <<[tag |-> 21589, size |-> 5, data |-> <<0>>]>>]}

\* A first member whose CDH fields are saturated, the values being in its
\* ZIP64 extra: the compressed and uncompressed size 2, the LFH offset 0.
PromotedMember ==
    [StoredMember(<<97>>) EXCEPT
        !.cdh_size = Sentinel32, !.recorded = Some(Sentinel32),
        !.cdh_extra = <<Zip64Extra(<<U(0, 2), U(0, 2), U(0, 0)>>)>>]

\* A first member like it that has a data descriptor in the ZIP64 layout.
PromotedStreamedMember ==
    [StreamedMember(<<97>>, U(0, 0), TRUE, TRUE, U(0, 2)) EXCEPT
        !.cdh_size = Sentinel32,
        !.cdh_extra = <<Zip64Extra(<<U(0, 2), U(0, 2)>>)>>]

\* A member whose CDH records an LFH offset beyond the file.
StrayMember == [StoredMember(<<97>>) EXCEPT !.recorded = Some(U(0, 5000))]

FirstMembers ==
    StreamedMembers \cup BrokenMembers
        \cup {StoredMember(<<97>>), PaddedMember, UnflaggedMember, PromotedMember,
              PromotedStreamedMember, StrayMember}

\* The members of the archives: none, any first member, any first member
\* and a stored member "b" after it.
MemberLists ==
    {<<>>} \cup {<<m>> : m \in FirstMembers}
           \cup {<<m, StoredMember(<<98>>)>> : m \in FirstMembers}

\* The file of an archive with a ZIP64 EOCD: what precedes it, the ZIP64
\* EOCD with size_of_record and its extensible data, the locator when there
\* is one (recording the ZIP64 EOCD at locator_offset), the EOCD with all
\* its fields saturated.
Zip64ArchiveFile(body, size_of_record, extensible_data, locator_offset) ==
    body.bytes
        \o Zip64EocdToBytes(
            [signature |-> Zip64EocdSignature, size_of_record |-> size_of_record,
             version_made_by |-> 45, version_needed |-> 45, disk_number |-> U(0, 0),
             disk_number_with_eocd |-> U(0, 0),
             total_entries_on_disk |-> FromInt(body.total_entries),
             total_entries |-> FromInt(body.total_entries),
             central_directory_size |-> body.central_directory_size,
             central_directory_offset |-> body.central_directory_offset])
        \o extensible_data
        \o (IF IsSome(locator_offset)
            THEN Zip64LocatorToBytes(
                    [signature |-> Zip64LocatorSignature, disk_with_eocd |-> U(0, 0),
                     eocd_offset |-> Unwrap(locator_offset), total_disks |-> U(0, 1)])
            ELSE <<>>)
        \o EocdToBytes([signature |-> EocdSignature, disk_number |-> 0,
                        disk_number_with_eocd |-> 0, entries_on_disk |-> 65535,
                        total_entries |-> 65535,
                        central_directory_size |-> Sentinel32,
                        central_directory_offset |-> Sentinel32,
                        comment_length |-> 0, comment |-> <<>>])

\* What precedes the EOCD in the archives with a ZIP64 EOCD.
Zip64Bodies ==
    {MembersBody(ms) : ms \in {<<>>, <<StoredMember(<<97>>)>>,
                               <<StoredMember(<<97>>), StoredMember(<<98>>)>>}}

\* Archives with a ZIP64 EOCD: with the locator or without it, with a byte
\* of extensible data or without it.
Zip64ArchiveFiles ==
    {Zip64ArchiveFile(body, U(0, 44 + Len(ext)), ext,
                      IF with_locator THEN Some(FromInt(Len(body.bytes))) ELSE None) :
        body \in Zip64Bodies, ext \in {<<>>, <<7>>}, with_locator \in BOOLEAN}

\* Files whose records do not fit the file: a ZIP64 EOCD whose
\* size_of_record is below 44, or beyond the file; a locator that records an
\* offset beyond the file; an EOCD that records the central directory
\* further, larger, or with more entries than it has; a saturated EOCD with
\* nothing before it.
MisfitFiles ==
    {Zip64ArchiveFile(MembersBody(<<StoredMember(<<97>>)>>), size_of_record, <<>>,
                      Some(U(0, 80))) : size_of_record \in {U(0, 43), U(0, 1000)}}
        \cup {Zip64ArchiveFile(MembersBody(<<StoredMember(<<97>>)>>), U(0, 44), <<>>,
                               Some(U(0, 5000)))}
        \cup {ArchiveFile([MembersBody(ms) EXCEPT !.central_directory_offset = U(0, 5000)],
                          <<>>) : ms \in {<<>>, <<StoredMember(<<97>>)>>}}
        \cup {ArchiveFile([MembersBody(<<StoredMember(<<97>>)>>) EXCEPT
                              !.central_directory_size = U(0, 500)], <<>>),
              ArchiveFile([MembersBody(<<StoredMember(<<97>>)>>) EXCEPT
                              !.total_entries = 2], <<>>),
              ArchiveFile([EmptyBody EXCEPT !.total_entries = 65535], <<>>)}

\* The files parse is given.
ParsedFiles ==
    {ArchiveFile(MembersBody(ms), <<>>) : ms \in MemberLists}
        \cup Zip64ArchiveFiles \cup MisfitFiles

\* A file and a reader, before ZipFile::parse is called.
ParseInit ==
    /\ blob \in ParsedFiles
    /\ reader \in {Some([kind |-> kind, overflow_checks |-> overflow_checks]) :
                      kind \in {"exact", "short"}, overflow_checks \in BOOLEAN}
    /\ zip_file = NamedZip(<<>>)
    /\ config = TestConfig
    /\ omit_entries = <<>>
    /\ pc = "parse_file"
    /\ inspected = NoArchive
    /\ index = 0
    /\ chunks = <<>>
    /\ current_offset = U(0, 0)
    /\ new_cd_entries = <<>>
    /\ cd_start_offset = U(0, 0)
    /\ previous = None
    /\ detector = None
    /\ total_entries = 0
    /\ error = None
    /\ compatibility = None
    /\ earlier = None
    /\ located = None
    /\ parsed = None
    /\ parsed_fields = None

\* ZipFile::parse
ParseFile ==
    /\ pc = "parse_file"
    /\ \E r \in {ZipFileParse(blob, reader[1].kind, reader[1].overflow_checks)} :
          /\ parsed' = Some(r)
          /\ error' = IF r.result.ok THEN None ELSE Some(r.result.error)
          /\ pc' = IF r.result.ok THEN "parse_returned" ELSE "parse_failed"
    /\ UNCHANGED <<zip_file, config, omit_entries, inspected, index, chunks,
                   current_offset, new_cd_entries, cd_start_offset, previous,
                   detector, total_entries, compatibility, earlier, blob, located,
                   reader, parsed_fields>>

ParseNext == ParseFile

ParseSpec == ParseInit /\ [][ParseNext]_vars


---------------------------------------------------------------------------
(* Claims about ZipFile::parse *)

\* parse has run on the file.
ParseRan == pc \in {"parse_returned", "parse_failed"}

\* The reads parse issued.
IssuedReads == parsed[1].reads

\* A read asks for nothing beyond the end of the file. A size that wrapped
\* around is beyond any file.
ReadWithinFile(request) ==
    request.size.hi >= 0 /\ WithinFile(Len(blob), request.offset, request.size)

\* C21: every read(offset, size) that ZipFile::parse issues satisfies
\* offset + size <= file_size, whatever the file holds: the read of the tail
\* for the EOCD, the reads of the ZIP64 locator, of the ZIP64 EOCD and of its
\* extensible data, the read of the central directory, the reads of 30 bytes
\* and of the full LFH at each local header offset, the read of 20 or 28
\* bytes for a data descriptor.
C21_ReadsWithinFile ==
    ParseRan => \A i \in DOMAIN IssuedReads : ReadWithinFile(IssuedReads[i])

\* Reached: parse returned an archive of two members, one of them with a data
\* descriptor, and each of its six reads was within the file.
C21_Witness ==
    /\ pc = "parse_returned"
    /\ Len(parsed[1].result.value.entries) = 2
    /\ IsSome(parsed[1].result.value.entries[1].descriptor)
    /\ Len(IssuedReads) = 7
    /\ \A i \in DOMAIN IssuedReads : ReadWithinFile(IssuedReads[i])


\* What parse returned, when it returned a ZipFile.
ParsedZip == parsed[1].result.value

\* The total entry count in effect: that of the ZIP64 EOCD when parse
\* resolved one, else that of the EOCD.
EffectiveTotalEntries(zip) ==
    IF IsSome(zip.eocd_zip64) THEN ToInt(zip.eocd_zip64[1][1].header.total_entries)
    ELSE zip.eocd.total_entries

\* Where the central directory in effect starts in the file.
EffectiveDirectoryOffset(zip) ==
    IF IsSome(zip.eocd_zip64)
    THEN ToInt(zip.eocd_zip64[1][1].header.central_directory_offset)
    ELSE ToInt(zip.eocd.central_directory_offset)

\* Where the i-th CDH starts in the file when the CDHs before it are those
\* of the entries before the i-th.
DirectoryPosition(zip, i) ==
    EffectiveDirectoryOffset(zip) + SumSeq([j \in 1..(i - 1) |-> CdhLen(zip.entries[j].cdh)])

\* C22: whenever parse returns a ZipFile, it has as many entries as the
\* total entry count in effect says (the ZIP64 EOCD's when one was resolved,
\* else the EOCD's); the i-th entry is built from the i-th CDH of the central
\* directory, in order; and its LFH is the one at the local header offset
\* that CDH records.
C22_EntriesFollowDirectory ==
    pc = "parse_returned" =>
        /\ Len(ParsedZip.entries) = EffectiveTotalEntries(ParsedZip)
        /\ \A i \in DOMAIN ParsedZip.entries :
              /\ ParsedZip.entries[i].cdh
                    = CentralDirectoryHeaderParse(
                          Slice(blob, DirectoryPosition(ParsedZip, i), Len(blob))).value
              /\ ParsedZip.entries[i].lfh
                    = LocalFileHeaderParse(
                          Slice(blob, ToInt(ParsedZip.entries[i].cdh.local_header_offset),
                                Len(blob)),
                          ParsedZip.entries[i].cdh.local_header_offset).value

\* Reached: parse returned the two entries "a" and "b", in this order, of an
\* archive whose EOCD records 65535 entries and whose ZIP64 EOCD records 2.
C22_Witness ==
    /\ pc = "parse_returned"
    /\ ParsedZip.eocd.total_entries = 65535
    /\ IsSome(ParsedZip.eocd_zip64)
    /\ Len(ParsedZip.entries) = 2
    /\ ParsedZip.entries[1].cdh.file_name = <<97>>
    /\ ParsedZip.entries[2].cdh.file_name = <<98>>
    /\ ParsedZip.entries[2].lfh.file_name = <<98>>
    /\ ParsedZip.entries[2].cdh.local_header_offset = U(0, 33)


\* The file is an archive whose first member has a CDH or an LFH that fails
\* validation (a wrong signature, a broken extra) and whose other records
\* are sound; `others` is what follows the first member.
FirstMemberBroken(others) ==
    \E m \in BrokenMembers : blob = ArchiveFile(MembersBody(<<m>> \o others), <<>>)

\* C23: when a single CDH or LFH fails validation or has a broken extra
\* during the walk of the central directory, parse reports it to the
\* caller's warning sink with the entry's index and, the sink answering
\* continue (as the sink of main.rs always does), goes on with the next CDH
\* and still returns a ZipFile; only a stop answer or a fatal error (EOCD
\* missing, directory unreadable) makes parse fail.
C23_AnomalyIsWarning ==
    /\ ParseRan /\ FirstMemberBroken(<<>>) => pc = "parse_returned"
    /\ ParseRan /\ FirstMemberBroken(<<StoredMember(<<98>>)>>) =>
          /\ pc = "parse_returned"
          /\ \E i \in DOMAIN ParsedZip.entries :
                ParsedZip.entries[i].cdh.file_name = <<98>>

\* Reached: parse failed with InvalidData on an archive whose first member is
\* broken and whose second member is sound, after reading the central
\* directory.
C23_Witness ==
    /\ pc = "parse_failed"
    /\ FirstMemberBroken(<<StoredMember(<<98>>)>>)
    /\ parsed[1].result.error = "InvalidData"
    /\ Len(IssuedReads) >= 2


\* The signatures a section after a data descriptor may start with: LFH,
\* CDH, EOCD, ZIP64 EOCD.
NextSectionSignatures ==
    {U(1027, 19280), U(513, 19280), U(1541, 19280), U(1542, 19280)}

\* The entry has an extra with tag 0x0001 in its LFH or in its CDH.
CarriesZip64Extra(entry) ==
    \E h \in {entry.lfh, entry.cdh} :
        \E i \in DOMAIN h.extra_fields : h.extra_fields[i].tag = 1

\* The number of bytes a descriptor takes before the next section, by its
\* layout and the presence of its signature.
DescriptorLength(zip64, with_signature) ==
    (IF zip64 THEN 20 ELSE 12) + (IF with_signature THEN 4 ELSE 0)

\* The bytes of the file from the place where parse looks for the
\* descriptor of the entry.
PeekedBytes(entry) ==
    Slice(blob, ToInt(Add(entry.lfh.file_data_offset, entry.lfh.file_data_size)),
          Len(blob))

\* A next-section signature is at offset k of the bytes.
NextSectionAt(data, k) ==
    Len(data) >= k + 4 /\ parse_u32_le(Slice(data, k, k + 4)) \in NextSectionSignatures

\* The descriptor of the entry was parsed from the bytes in the given
\* layout, with or without a signature in front of the CRC-32 and the sizes.
DescriptorParsedAs(entry, data, zip64, with_signature) ==
    LET at == IF with_signature THEN 4 ELSE 0
        d == entry.descriptor[1]
    IN  /\ d.ok
        /\ d.value.type = (IF zip64 THEN "Zip64" ELSE "Standard")
        /\ IsSome(d.value.signature) <=> with_signature
        /\ d.value.crc32 = parse_u32_le(Slice(data, at, at + 4))
        /\ IF zip64
           THEN /\ d.value.compressed_size = parse_u64_le(Slice(data, at + 4, at + 12))
                /\ d.value.uncompressed_size = parse_u64_le(Slice(data, at + 12, at + 20))
           ELSE /\ d.value.compressed_size = parse_u32_le(Slice(data, at + 4, at + 8))
                /\ d.value.uncompressed_size = parse_u32_le(Slice(data, at + 8, at + 12))

\* The descriptor is looked for iff bit 3 of the LFH flags is set; the read
\* for it takes 28 bytes iff the LFH or the CDH carries a 0x0001 extra, else
\* 20.
DescriptorLookedFor(entry) ==
    /\ IsSome(entry.descriptor) <=> (entry.lfh.flags \div 8) % 2 = 1
    /\ IsSome(entry.descriptor) =>
          \E i \in DOMAIN IssuedReads :
              /\ IssuedReads[i].offset
                    = Add(entry.lfh.file_data_offset, entry.lfh.file_data_size)
              /\ IssuedReads[i].size
                    = (IF CarriesZip64Extra(entry) THEN U(0, 28) ELSE U(0, 20))

\* The layout as the claim decides it: from the position of the next
\* section's signature alone.
LayoutByPositionOnly(entry, data, zip64) ==
    IF NextSectionAt(data, DescriptorLength(zip64, TRUE))
    THEN DescriptorParsedAs(entry, data, zip64, TRUE)
    ELSE IF NextSectionAt(data, DescriptorLength(zip64, FALSE))
    THEN DescriptorParsedAs(entry, data, zip64, FALSE)
    ELSE ~entry.descriptor[1].ok

\* The layout as decided from the position, the with-signature layout being
\* accepted only when the first four bytes are 0x08074b50.
LayoutByPositionThenSignature(entry, data, zip64) ==
    IF NextSectionAt(data, DescriptorLength(zip64, TRUE))
    THEN IF parse_u32_le(Slice(data, 0, 4)) = U(2055, 19280)
         THEN DescriptorParsedAs(entry, data, zip64, TRUE)
         ELSE ~entry.descriptor[1].ok
    ELSE IF /\ NextSectionAt(data, DescriptorLength(zip64, FALSE))
            /\ Len(data) >= DescriptorLength(zip64, TRUE) + 4
    THEN DescriptorParsedAs(entry, data, zip64, FALSE)
    ELSE ~entry.descriptor[1].ok

\* C24 as stated: the layout of a data descriptor is decided only from the
\* position of the next section's signature: a signature of an LFH, a CDH,
\* an EOCD or a ZIP64 EOCD at offset 16 (standard) or 24 (ZIP64) means the
\* descriptor is parsed as having a signature; else one at offset 12 or 20
\* means it has none; when both match the with-signature layout wins; when
\* neither matches the descriptor parse fails. The ZIP64 layout is used iff
\* the LFH or the CDH carries a 0x0001 extra, and a descriptor is looked for
\* iff bit 3 of the LFH flags is set.
C24_AsStated ==
    pc = "parse_returned" =>
        \A i \in DOMAIN ParsedZip.entries :
            /\ DescriptorLookedFor(ParsedZip.entries[i])
            /\ IsSome(ParsedZip.entries[i].descriptor) =>
                  LayoutByPositionOnly(ParsedZip.entries[i],
                                       PeekedBytes(ParsedZip.entries[i]),
                                       CarriesZip64Extra(ParsedZip.entries[i]))

\* C24, amended: as stated, except that a descriptor taken as having a
\* signature is parsed only when its first four bytes are 0x08074b50 and
\* fails otherwise, and that the parse fails when fewer than 20 (28) bytes
\* could be read.
C24_DescriptorLayout ==
    pc = "parse_returned" =>
        \A i \in DOMAIN ParsedZip.entries :
            /\ DescriptorLookedFor(ParsedZip.entries[i])
            /\ IsSome(ParsedZip.entries[i].descriptor) =>
                  LayoutByPositionThenSignature(ParsedZip.entries[i],
                                                PeekedBytes(ParsedZip.entries[i]),
                                                CarriesZip64Extra(ParsedZip.entries[i]))

\* Reached: a descriptor with a signature whose uncompressed size reads as
\* an LFH signature, so that both positions match, parsed with its
\* signature; the next entry has no descriptor.
C24_Witness ==
    /\ pc = "parse_returned"
    /\ Len(ParsedZip.entries) = 2
    /\ IsSome(ParsedZip.entries[1].descriptor)
    /\ NextSectionAt(PeekedBytes(ParsedZip.entries[1]), 12)
    /\ NextSectionAt(PeekedBytes(ParsedZip.entries[1]), 16)
    /\ ParsedZip.entries[1].descriptor[1].ok
    /\ ParsedZip.entries[1].descriptor[1].value.signature = Some(U(2055, 19280))
    /\ ParsedZip.entries[1].descriptor[1].value.uncompressed_size = U(1027, 19280)
    /\ ~IsSome(ParsedZip.entries[2].descriptor)


\* The values of the CDH's 0x0001 extra, when the CDH has one.
CdhZip64(cdh) ==
    LET found == {i \in DOMAIN cdh.extra_fields : cdh.extra_fields[i].tag = 1}
    IN  IF found = {}
        THEN [uncompressed_size |-> None, compressed_size |-> None,
              local_header_offset |-> None]
        ELSE Zip64ExtendedInfoParse(
                 cdh.extra_fields[CHOOSE i \in found : \A j \in found : i <= j].data,
                 cdh.uncompressed_size, cdh.compressed_size, cdh.local_header_offset)

\* The compressed size and the LFH offset the CDH states, taken from its
\* ZIP64 extra when the 32-bit field is saturated.
PromotedCompressedSize(cdh) ==
    IF IsSome(CdhZip64(cdh).compressed_size) THEN Unwrap(CdhZip64(cdh).compressed_size)
    ELSE cdh.compressed_size

PromotedLocalHeaderOffset(cdh) ==
    IF IsSome(CdhZip64(cdh).local_header_offset)
    THEN Unwrap(CdhZip64(cdh).local_header_offset)
    ELSE cdh.local_header_offset

\* The claim's values for one entry.
DataRangeFromCdh(entry) ==
    /\ entry.lfh.file_data_offset
          = Add(PromotedLocalHeaderOffset(entry.cdh),
                FromInt(30 + entry.lfh.file_name_length + entry.lfh.extra_field_length))
    /\ entry.lfh.file_data_size = PromotedCompressedSize(entry.cdh)
    /\ IsSome(entry.descriptor) =>
          \E i \in DOMAIN IssuedReads :
              IssuedReads[i].offset
                  = Add(Add(PromotedLocalHeaderOffset(entry.cdh),
                            FromInt(30 + entry.lfh.file_name_length
                                       + entry.lfh.extra_field_length)),
                        PromotedCompressedSize(entry.cdh))

\* C25: file_data_offset of an entry is local_header_offset + (30 + the
\* LFH's filename length + the LFH's extra length), local_header_offset
\* being the CDH's value, taken from its ZIP64 extra when saturated;
\* file_data_size is the CDH's compressed size, promoted in the same way,
\* not the compressed size of the LFH; a data descriptor is looked for at
\* file_data_offset + that size. An archive whose CDH has a saturated LFH
\* offset with the value in its ZIP64 extra is parsed this way.
C25_DataRangeFromCdh ==
    /\ pc = "parse_returned" =>
          \A i \in DOMAIN ParsedZip.entries : DataRangeFromCdh(ParsedZip.entries[i])
    /\ ParseRan /\ blob = ArchiveFile(MembersBody(<<PromotedMember>>), <<>>) =>
          pc = "parse_returned"

\* Reached: parse returned a member written as a stream: its LFH states the
\* compressed size 0, its CDH states 2, its descriptor follows the two
\* payload bytes, and parse looked for it at file_data_offset + 0.
C25_Witness ==
    /\ pc = "parse_returned"
    /\ Len(ParsedZip.entries) = 1
    /\ ParsedZip.entries[1].lfh.compressed_size = U(0, 0)
    /\ ParsedZip.entries[1].cdh.compressed_size = U(0, 2)
    /\ ParsedZip.entries[1].lfh.file_data_offset = U(0, 31)
    /\ ParsedZip.entries[1].lfh.file_data_size = U(0, 0)
    /\ IsSome(ParsedZip.entries[1].descriptor)
    /\ ~ParsedZip.entries[1].descriptor[1].ok
    /\ IssuedReads[Len(IssuedReads)] = Request(U(0, 31), U(0, 20))


---------------------------------------------------------------------------
(* parse.rs: ExtraField::parse_all on the bytes of an extra-field region *)

\* The longest region given to parse_all.
MaxRegionLen == 8

\* The regions: the byte strings of at most MaxRegionLen bytes over 0, 1, 2.
\* They hold records with data of 0, 1 and 2 bytes, records that declare
\* 256 bytes and more, and tails of 1 to 3 bytes.
Regions == UNION {[1..n -> {0, 1, 2}] : n \in 0..MaxRegionLen}

\* The bytes of an extra-field region, before parse_all is called.
RegionInit ==
    /\ blob \in Regions
    /\ zip_file = NamedZip(<<>>)
    /\ config = TestConfig
    /\ omit_entries = <<>>
    /\ pc = "extras"
    /\ inspected = NoArchive
    /\ index = 0
    /\ chunks = <<>>
    /\ current_offset = U(0, 0)
    /\ new_cd_entries = <<>>
    /\ cd_start_offset = U(0, 0)
    /\ previous = None
    /\ detector = None
    /\ total_entries = 0
    /\ error = None
    /\ compatibility = None
    /\ earlier = None
    /\ located = None
    /\ reader = None
    /\ parsed = None
    /\ parsed_fields = None

\* ExtraField::parse_all
ParseExtraFields ==
    /\ pc = "extras"
    /\ \E r \in {parse_all(blob)} :
          /\ parsed_fields' = Some(r)
          /\ error' = IF r.ok THEN None ELSE Some(r.error)
          /\ pc' = "extras_parsed"
    /\ UNCHANGED <<zip_file, config, omit_entries, inspected, index, chunks,
                   current_offset, new_cd_entries, cd_start_offset, previous,
                   detector, total_entries, compatibility, earlier, blob, located,
                   reader, parsed>>

RegionNext == ParseExtraFields

RegionSpec == RegionInit /\ [][RegionNext]_vars

\* The size a record at offset p of the region declares.
DeclaredSize(region, p) == region[p + 3] + 256 * region[p + 4]

\* The region is an exact concatenation of records (tag: u16, size: u16,
\* data[size]): there are cut positions from 0 to its end, each but the last
\* followed by 4 bytes and the data they declare, up to the next cut.
IsConcatenation(region) ==
    \E cuts \in SUBSET (0..Len(region)) :
        /\ 0 \in cuts
        /\ Len(region) \in cuts
        /\ \A p \in cuts :
              \/ p = Len(region)
              \/ /\ p + 4 <= Len(region)
                 /\ p + 4 + DeclaredSize(region, p) \in cuts

\* C26: parse_all succeeds iff the region is an exact concatenation of
\* records (tag, size, data[size]); on success, writing tag, size and data
\* of each field in order (as the serializers of rebuild.rs do) gives the
\* region back byte for byte and each field has data.len = size; a region
\* with 1 to 3 bytes after the last record, or with a record that runs over
\* the end, gives InvalidData and no fields.
C26_ExtrasRoundTrip ==
    pc = "extras_parsed" =>
        /\ parsed_fields[1].ok <=> IsConcatenation(blob)
        /\ parsed_fields[1].ok =>
              /\ ExtraFieldsToBytes(parsed_fields[1].value) = blob
              /\ \A i \in DOMAIN parsed_fields[1].value :
                    Len(parsed_fields[1].value[i].data) = parsed_fields[1].value[i].size
        /\ ~parsed_fields[1].ok =>
              parsed_fields[1] = [ok |-> FALSE, value |-> <<>>, error |-> "InvalidData"]

\* Reached: the region 01 00 00 00 02 00 00 00 parsed into its two fields,
\* with the tags 1 and 2 and no data.
C26_Witness ==
    /\ pc = "extras_parsed"
    /\ blob = <<1, 0, 0, 0, 2, 0, 0, 0>>
    /\ parsed_fields[1].ok
    /\ parsed_fields[1].value
          = <<[tag |-> 1, size |-> 0, data |-> <<>>], [tag |-> 2, size |-> 0, data |-> <<>>]>>


---------------------------------------------------------------------------
(* Claims about the overall encoding *)

\* The selected source bytes of the i-th entry.
SelectedSource(i) == Predetect(zip_file, config)[i].original_bytes

\* The bytes decode under the encoding without errors; under ASCII, all of
\* them are ASCII.
DecodesCleanly(bytes, encoding) ==
    IF encoding = ASCII THEN \A k \in DOMAIN bytes : bytes[k] < 128
    ELSE ~DecodeFrom(bytes, 1, encoding).has_errors

\* C27: whenever the overall_encoding of an InspectedArchive is present,
\* the selected source bytes of every entry decode under that encoding
\* without errors, each on its own (under ASCII: all its bytes are ASCII);
\* the overall detection is run once, on the concatenation of the selected
\* source bytes of the entries in order.
C27_OverallDecodesEach ==
    pc = "inspected" =>
        /\ inspected.overall_encoding
              = detect_encoding(
                    Concat([i \in 1..Len(zip_file.entries) |-> SelectedSource(i)]),
                    detector[1][Len(zip_file.entries) + 1])
        /\ IsSome(inspected.overall_encoding) =>
              \A i \in 1..Len(zip_file.entries) :
                  DecodesCleanly(SelectedSource(i), inspected.overall_encoding[1])


\* Reached: an archive of a name in UTF-8 (E3 80 9C, UTF-8 flag set) and a
\* name in Shift_JIS (81 60) whose concatenation the detector takes for
\* Shift_JIS: it decodes as such without errors (E3 80, 9C 81, 60), so
\* overall_encoding is Shift_JIS, under which the first name alone ends in
\* a lead byte without its trail byte.
C27_Witness ==
    /\ pc = "inspected"
    /\ Len(zip_file.entries) = 2
    /\ SelectedSource(1) = <<227, 128, 156>>
    /\ SelectedSource(2) = <<129, 96>>
    /\ inspected.overall_encoding = Some(SHIFT_JIS)
    /\ ~DecodeFrom(SelectedSource(1) \o SelectedSource(2), 1, SHIFT_JIS).has_errors
    /\ DecodeFrom(SelectedSource(1), 1, SHIFT_JIS).has_errors


---------------------------------------------------------------------------
(* Claims about the prevalence values of analyze                            *)

\* The headers analyze looks at: the CDH and the LFH of every entry.
AnalyzedHeaders ==
    {zip_file.entries[i].cdh : i \in 1..Len(zip_file.entries)}
        \cup {zip_file.entries[i].lfh : i \in 1..Len(zip_file.entries)}

NonAsciiNamed(header) == \E k \in 1..Len(header.filename) : header.filename[k] >= 128

CarriesUtf8Flag(header) == HasBit(header.flags, Utf8Flag)

CarriesUnicodePath(header) ==
    IsSome(header.unicode_path) /\ Unwrap(header.unicode_path).crc32_matched

\* What the four prevalence values say of the headers that carry a signal.
PrevalenceTellsCarriers(prevalence, carriers) ==
    /\ prevalence = "None" <=> carriers = {}
    /\ prevalence = "Always" => carriers = AnalyzedHeaders
    /\ PrevalenceRank(prevalence) >= PrevalenceRank("AlwaysForNonAscii")
          => \A h \in AnalyzedHeaders : NonAsciiNamed(h) => h \in carriers
    /\ (/\ \E h \in carriers : NonAsciiNamed(h)
        /\ \E h \in AnalyzedHeaders \ carriers : NonAsciiNamed(h))
          => prevalence = "Sometimes"

\* C28: in a result of analyze that is not Broken, each prevalence
\* (with_utf8_flags where the level has it, with_unicode_path_fields) is None
\* exactly when no header carries the signal, Always only if every header
\* carries it, AlwaysForNonAscii or higher only if every header with a
\* non-ASCII filename carries it, and Sometimes when some but not all of the
\* headers with a non-ASCII filename carry it.
C28_PrevalenceTellsCarriers ==
    (pc = "parsed" /\ Unwrap(compatibility).type # "Broken") =>
        /\ Unwrap(compatibility).type # "Other" =>
              PrevalenceTellsCarriers(Unwrap(compatibility).with_utf8_flags,
                                      {h \in AnalyzedHeaders : CarriesUtf8Flag(h)})
        /\ PrevalenceTellsCarriers(Unwrap(compatibility).with_unicode_path_fields,
                                   {h \in AnalyzedHeaders : CarriesUnicodePath(h)})

\* An archive of two entries named in UTF-8 beyond ASCII, one with the UTF-8
\* flag in both headers and one without it, has been analyzed.
C28_Witness ==
    /\ pc = "parsed"
    /\ Unwrap(compatibility).type = "Utf8Only"
    /\ Len(zip_file.entries) = 2
    /\ \A h \in AnalyzedHeaders : NonAsciiNamed(h)
    /\ CarriesUtf8Flag(zip_file.entries[1].cdh) /\ CarriesUtf8Flag(zip_file.entries[1].lfh)
    /\ ~CarriesUtf8Flag(zip_file.entries[2].cdh) /\ ~CarriesUtf8Flag(zip_file.entries[2].lfh)
    /\ Unwrap(compatibility).with_utf8_flags = "AlwaysForNonAscii"


---------------------------------------------------------------------------
(* Claims about the running offset of rebuild                               *)

\* A 32-bit field of the EOCD tells the true value: it is that value, or it
\* is 0xFFFFFFFF and a ZIP64 EOCD is written.
Tells32(field, true, with_zip64) == field = true \/ (field = Sentinel32 /\ with_zip64)

\* C29: throughout rebuild the running output offset is the sum of the sizes
\* of all chunks emitted so far (the length of a Binary chunk, the size of a
\* Reference chunk). Once the call has returned, the central directory's
\* offset and size written to the EOCD and the ZIP64 EOCD are the position
\* at which the CDH chunks begin and their total length, the locator's
\* eocd_offset is the position at which the ZIP64 EOCD chunk begins, and the
\* total size returned is the sum of all chunk sizes; with no retained entry
\* the output is the EOCD alone, 22 bytes and the archive comment.
C29_OffsetIsSumOfChunks ==
    /\ current_offset = SumChunks(chunks)
    /\ pc = "cdh" => cd_start_offset = SumChunks(SubSeq(chunks, 1, 2 * Len(Retained)))
    /\ Done =>
          LET r == Len(Retained)
              tail == TailChunks(r)
              cd_start == SumChunks(SubSeq(chunks, 1, 2 * r))
              cd_size == SumChunks(SubSeq(chunks, 2 * r + 1, 3 * r))
              eocd == EndOfCentralDirectoryParse(tail[Len(tail)].bytes)
          IN  /\ Len(tail) \in {1, 3}
              /\ \A k \in 2 * r + 1 .. 3 * r : IsCdhChunk(chunks[k])
              /\ eocd.ok
              /\ Tells32(eocd.value.central_directory_offset, cd_start, Len(tail) = 3)
              /\ Tells32(eocd.value.central_directory_size, cd_size, Len(tail) = 3)
              /\ Len(tail) = 3 =>
                    LET zip64 == Zip64EndOfCentralDirectoryHeaderParse(tail[1].bytes)
                        locator == Zip64EndOfCentralDirectoryLocatorParse(tail[2].bytes)
                    IN  /\ zip64.ok /\ locator.ok
                        /\ zip64.value.central_directory_offset = cd_start
                        /\ zip64.value.central_directory_size = cd_size
                        /\ locator.value.eocd_offset = SumChunks(SubSeq(chunks, 1, 3 * r))
              /\ r = 0 =>
                    /\ Len(chunks) = 1
                    /\ chunks[1].kind = "Binary"
                    /\ Len(chunks[1].bytes) = 22 + Len(zip_file.eocd.comment)
                    /\ current_offset = FromInt(22 + Len(zip_file.eocd.comment))

\* A rebuild has returned whose central directory begins beyond 0xFFFFFFFF,
\* so that the ZIP64 EOCD and its locator are among the chunks counted.
C29_Witness ==
    /\ Done
    /\ Len(Retained) = 2
    /\ Len(chunks) = 9
    /\ ~Less(cd_start_offset, Sentinel32)
    /\ current_offset = SumChunks(chunks)
    /\ Zip64EndOfCentralDirectoryLocatorParse(chunks[8].bytes).value.eocd_offset
          = SumChunks(SubSeq(chunks, 1, 6))

\* A rebuild that retains no entry of an archive with a comment has returned.
C29_WitnessEmpty ==
    /\ Done
    /\ Retained = <<>>
    /\ zip_file.eocd.comment # <<>>
    /\ Len(chunks) = 1


---------------------------------------------------------------------------
(* rebuild.rs: rebuild of archives whose extras fill the 16-bit length       *)

\* An extra of a tag the code gives no meaning, with size bytes of data.
FillerExtra(size) == [tag |-> 51966, size |-> size, data |-> [i \in 1..size |-> 0]]

\* A compressed size of 0xFFFFFFFF that no ZIP64 extra accompanies.
SentinelSizes == [compressed |-> Plain(Sentinel32), uncompressed |-> Plain(U(0, 9))]

\* Sizes beyond 32 bits, both in the ZIP64 extra of the CDH.
PromotedSizes ==
    [compressed |-> Promoted(U(65536, 0)), uncompressed |-> Promoted(U(65536, 1))]

\* A streamed entry: its LFH carries one filler extra and no ZIP64 extra (the
\* sizes follow the data), its CDH the ZIP64 extra its sizes ask for and one
\* filler extra.
FilledEntry(sizes, lfh_filler, cdh_filler, pos) ==
    [MakeEntry(PlainName, sizes,
               [cdh_others |-> <<FillerExtra(cdh_filler)>>, lfh_others |-> <<>>,
                file_comment |-> <<>>], pos)
        EXCEPT !.lfh.extra_fields = <<FillerExtra(lfh_filler)>>]

\* Sizes and filler lengths of source headers whose extras are at most
\* 0xFFFF bytes: those that the ZIP64 extra rebuild inserts (20 bytes in the
\* LFH, 12 in the CDH of SentinelSizes) brings to 0xFFFF, to 0x10000 and
\* beyond, and those without an inserted extra.
FilledParts ==
    {<<SmallSizes, 65531, 65531>>,
     <<PromotedSizes, 65511, 2>>,
     <<PromotedSizes, 65512, 2>>,
     <<PromotedSizes, 65531, 65511>>,
     <<SentinelSizes, 65511, 65519>>,
     <<SentinelSizes, 2, 65520>>,
     <<SentinelSizes, 65531, 65531>>}

FilledArchives ==
    {[entries |-> <<FilledEntry(part[1], part[2], part[3], 1)>>,
      eocd |-> [comment_length |-> 0, comment |-> <<>>]] : part \in FilledParts}

\* A call of rebuild on such an archive, by a build with or without overflow
\* checks.
LengthInit ==
    /\ zip_file \in FilledArchives
    /\ config = TestConfig
    /\ omit_entries = <<>>
    /\ pc = "call"
    /\ inspected = NoArchive
    /\ index = 0
    /\ chunks = <<>>
    /\ current_offset = U(0, 0)
    /\ new_cd_entries = <<>>
    /\ cd_start_offset = U(0, 0)
    /\ previous = None
    /\ detector = None
    /\ total_entries = 0
    /\ error = None
    /\ compatibility = None
    /\ earlier = None
    /\ blob = <<>>
    /\ located = None
    /\ reader \in {Some([kind |-> "exact", overflow_checks |-> checks]) : checks \in BOOLEAN}
    /\ parsed = None
    /\ parsed_fields = None

LengthSpec == LengthInit /\ [][Next]_vars

---------------------------------------------------------------------------
(* Claims about the 16-bit length fields of rebuilt headers                  *)

\* The length fields of header bytes, filename_length and extra_field_length
\* at fixed_size - 4 in an LFH (30) and at fixed_size - 18 in a CDH (46),
\* tell what follows the fixed part: the filename written, then extras that
\* fill the rest up to the file comment.
LengthFieldsExact(bytes, fixed_size, at, filename, comment_length) ==
    /\ parse_u16_le(SubSeq(bytes, at + 1, at + 2)) = Len(filename)
    /\ SubSeq(bytes, fixed_size + 1, fixed_size + Len(filename)) = filename
    /\ parse_u16_le(SubSeq(bytes, at + 3, at + 4))
          = Len(bytes) - fixed_size - Len(filename) - comment_length

\* C30: in every rebuilt LFH and CDH the 16-bit filename_length is the
\* number of filename bytes written after the fixed header, and the 16-bit
\* extra_field_length is the number of extra-field bytes written (the sum of
\* 4 + size over the emitted extras), neither truncated nor wrapped, also
\* when the inserted ZIP64 extra brings the extras beyond 65535 bytes; the
\* next header begins where the written lengths say.
C30_LengthFieldsExact ==
    \A j \in 1..Len(new_cd_entries) :
        /\ Len(chunks) >= 2 * j - 1 =>
              LengthFieldsExact(chunks[2 * j - 1].bytes, 30, 26,
                                new_cd_entries[j].filename, 0)
        /\ Len(chunks) >= 2 * Len(new_cd_entries) + j =>
              LengthFieldsExact(chunks[2 * Len(new_cd_entries) + j].bytes, 46, 28,
                                new_cd_entries[j].filename,
                                Len(new_cd_entries[j].entry.cdh.file_comment))

\* A build without overflow checks has rebuilt an LFH whose extras, the
\* inserted ZIP64 extra and a filler, take 65536 bytes.
C30_Witness ==
    /\ ~Unwrap(reader).overflow_checks
    /\ Len(chunks) >= 1
    /\ Len(new_cd_entries) >= 1
    /\ Len(chunks[1].bytes) = 30 + Len(new_cd_entries[1].filename) + 65536
    /\ parse_u16_le(SubSeq(chunks[1].bytes, 29, 30)) = 0

====
